---- MODULE Spec2Model ----
(***************************************************************************)
(* spacetime_physics: step_world and the store tables it reads and writes. *)
(*                                                                         *)
(* Geometry is restricted to sphere colliders whose centres lie on the x   *)
(* axis, with velocities and forces along x and rotations whose vector     *)
(* part is along x.  A Vec3 is therefore its x component (an integer, in   *)
(* fixed-point units), the cross product of any two vectors of the model   *)
(* is zero and the dot product is the product.  Divisions round towards    *)
(* zero.  A quaternion is the record [x, y, z, w] of the source.           *)
(***************************************************************************)
EXTENDS Integers, Sequences, FiniteSets, TLC

VARIABLES
    physics_world,                 \* table physics_world
    physics_colliders,             \* table physics_colliders
    physics_rigid_body_properties, \* table physics_rigid_body_properties
    physics_rigid_bodies,          \* table physics_rigid_bodies
    physics_triggers,              \* table physics_triggers
    physics_raycasts,              \* table physics_raycasts
    pc,                            \* position of step_world
    world,                         \* step_world: the PhysicsWorld row it steps
    kinematic_entities,            \* step_world: the caller's overrides
    entities,                      \* step_world: Vec<RigidBodyData>
    triggers,                      \* step_world: Vec<TriggerData>
    raycasts,                      \* step_world: Vec<RayCast>
    collision_detection,           \* step_world: CollisionDetection
    penetration_constraints,       \* step_world: constraints of the substep
    substep,                       \* step_world: loop counter i
    iteration,                     \* step_world: position-iteration counter
    snapshot,                      \* the tables as they were when the step began
    steps,                         \* the worlds of the steps begun so far, in order
    first_run,                     \* what an earlier run on this snapshot wrote
    lobby,                         \* gyrii: table lobby
    lobby_player,                  \* gyrii: table lobby_player
    player,                        \* gyrii: table player
    physics_tick_timer,            \* gyrii: table physics_tick_timer (pending timers)
    rapier_physics_world,          \* gyrii: table rapier_physics_world
    rapier_rigid_body,             \* gyrii: table rapier_rigid_body
    auto_inc,                      \* gyrii: the last id each auto_inc column gave
    timestamp                      \* gyrii: ctx.timestamp, in microseconds

vars == <<physics_world, physics_colliders, physics_rigid_body_properties,
          physics_rigid_bodies, physics_triggers, physics_raycasts, pc, world,
          kinematic_entities, entities, triggers, raycasts, collision_detection,
          penetration_constraints, substep, iteration, snapshot, steps, first_run,
          lobby, lobby_player, player, physics_tick_timer, rapier_physics_world,
          rapier_rigid_body, auto_inc, timestamp>>

tables == <<physics_world, physics_colliders, physics_rigid_body_properties,
            physics_rigid_bodies, physics_triggers, physics_raycasts>>

locals == <<world, kinematic_entities, entities, triggers, raycasts,
            collision_detection, penetration_constraints, substep, iteration>>

\* the state of the gyrii module
gyrii == <<lobby, lobby_player, player, physics_tick_timer, rapier_physics_world,
           rapier_rigid_body, auto_inc, timestamp>>

\* the state of spacetime_physics
physics == <<tables, locals, pc, snapshot, steps, first_run>>

-----------------------------------------------------------------------------
(* Bounds of the model *)

MaxSteps == 3
MaxSubStep == 2
MaxPositionIterations == 2

-----------------------------------------------------------------------------
(* Scalars, vectors on the x axis *)

Abs(n) == IF n < 0 THEN -n ELSE n

Sign(n) == IF n < 0 THEN -1 ELSE IF n > 0 THEN 1 ELSE 0

\* f32 division a / b for b # 0, rounded towards zero
Div(a, b) == Sign(a) * Sign(b) * (Abs(a) \div Abs(b))

Min(a, b) == IF a < b THEN a ELSE b

Max(a, b) == IF a > b THEN a ELSE b

\* x < f32::EPSILON and x <= f32::EPSILON, for x a multiple of the unit
BelowEpsilon(x) == x <= 0

Cross(a, b) == 0

Dot(a, b) == a * b

Length(a) == Abs(a)

Vec3Normalize(a) == IF Length(a) = 0 THEN 0 ELSE Div(a, Length(a))

-----------------------------------------------------------------------------
(* Quaternions *)

Quat(qx, qy, qz, qw) == [x |-> qx, y |-> qy, z |-> qz, w |-> qw]

QuatZERO == Quat(0, 0, 0, 0)

QuatIDENTITY == Quat(0, 0, 0, 1)

\* the length of a quaternion with at most one non-zero component
QuatLength(q) == Abs(q.x) + Abs(q.y) + Abs(q.z) + Abs(q.w)

QuatNormalize(q) ==
    LET len == QuatLength(q) IN
    IF len = 0 THEN QuatZERO
    ELSE Quat(Div(q.x, len), Div(q.y, len), Div(q.z, len), Div(q.w, len))

QuatInverse(q) == Quat(-q.x, -q.y, -q.z, q.w)

QuatAdd(p, q) == Quat(p.x + q.x, p.y + q.y, p.z + q.z, p.w + q.w)

\* Hamilton product p * q
QuatMul(p, q) ==
    Quat(p.w * q.x + p.x * q.w + p.y * q.z - p.z * q.y,
         p.w * q.y - p.x * q.z + p.y * q.w + p.z * q.x,
         p.w * q.z + p.x * q.y - p.y * q.x + p.z * q.w,
         p.w * q.w - p.x * q.x - p.y * q.y - p.z * q.z)

\* 0.5 * delta_time * q
QuatHalfScale(delta_time, q) ==
    Quat(Div(delta_time * q.x, 2), Div(delta_time * q.y, 2),
         Div(delta_time * q.z, 2), Div(delta_time * q.w, 2))

QuatFromXyz(vec, qw) == Quat(vec, 0, 0, qw)

\* vec + uv * (2 w) + uuv, with uv = q.xyz x vec and uuv = q.xyz x uv
QuatRotate(q, vec) ==
    LET uv  == Cross(q.x, vec)
        uuv == Cross(q.x, uv)
    IN  vec + uv * (2 * q.w) + uuv

\* sin and cos of half the angle; every angle of the model is zero, as every
\* lever arm is parallel to the direction of its correction
SinHalf(angle) == 0

CosHalf(angle) == 1

QuatFromScaledAxis(delta_angle) ==
    Quat(Vec3Normalize(delta_angle) * SinHalf(Length(delta_angle)), 0, 0,
         CosHalf(Length(delta_angle)))

\* to_radians of the vector part: x * pi / 180, with pi as 355 / 113
QuatAsRadians(q) == Div(q.x * 355, 113 * 180)

\* Quaternion::new(w, i, j, k) called as new(value.x, value.y, value.z, value.w),
\* then UnitQuaternion::from_quaternion normalises
ToUnitQuaternion(value) ==
    LET q == QuatNormalize(value) IN [w |-> q.x, i |-> q.y, j |-> q.z, k |-> q.w]

FromUnitQuaternion(value) == Quat(value.i, value.j, value.k, value.w)

-----------------------------------------------------------------------------
(* Tables *)

BodyTypes == {"Static", "Dynamic", "Kinematic"}

\* the elements of a Vec
SetOf(seq) == {seq[n] : n \in 1..Len(seq)}

\* index iteration of a table: rows in ascending id
RECURSIVE RowsById(_)
RowsById(rows) ==
    IF rows = {} THEN << >>
    ELSE LET least == CHOOSE r \in rows : \A o \in rows : r.id <= o.id
         IN  <<least>> \o RowsById(rows \ {least})

ColliderAll(world_id) == {c \in physics_colliders : c.world_id = world_id}

RigidBodyPropertiesAll(world_id) ==
    {p \in physics_rigid_body_properties : p.world_id = world_id}

RigidBodyAll(world_id) == {rb \in physics_rigid_bodies : rb.world_id = world_id}

TriggerAll(world_id) == {t \in physics_triggers : t.world_id = world_id}

\* variant: the raycasts of every world
RayCastAllWorlds(world_id) == physics_raycasts

RayCastAll(world_id) == {r \in physics_raycasts : r.world_id = world_id}

\* id().update(row): the row with this primary key is replaced
TableUpdate(table, row) == {r \in table : r.id # row.id} \cup {row}

\* id().update(row) for each row of a sequence
TableUpdateAll(table, rows) ==
    {r \in table : \A n \in 1..Len(rows) : r.id # rows[n].id} \cup SetOf(rows)

\* HashMap::get: the row with this id, or none
Get(rows, id) == {r \in rows : r.id = id}

HasRow(rows, id) == Get(rows, id) # {}

Row(rows, id) == CHOOSE r \in rows : r.id = id

\* the orders in which a HashSet can be iterated
RECURSIVE Orders(_)
Orders(set) ==
    IF set = {} THEN {<< >>}
    ELSE UNION {{<<x>> \o rest : rest \in Orders(set \ {x})} : x \in set}

\* one element of each set of a sequence of sets, in every way
RECURSIVE Choices(_)
Choices(sets) ==
    IF sets = << >> THEN {<< >>}
    ELSE {<<x>> \o rest : x \in Head(sets), rest \in Choices(Tail(sets))}

-----------------------------------------------------------------------------
(* RigidBodyData, TriggerData *)

\* Collider::inertia_tensor: of a sphere (2/5) m r^2 on each axis, as a fraction;
\* of a plane Mat3::ZERO
InertiaTensor(collider, mass) ==
    IF collider.collider_type = "Plane" THEN [num |-> 0, den |-> 1]
    ELSE [num |-> 2 * mass * collider.radius * collider.radius, den |-> 5]

\* ShapeWrapper::from: a Ball of the radius, or the HalfSpace of the unit normal
ShapeWrapperFrom(collider) ==
    IF collider.collider_type = "Plane"
    THEN [type |-> "Plane", radius |-> 0, normal |-> Vec3Normalize(collider.normal)]
    ELSE [type |-> "Sphere", radius |-> collider.radius, normal |-> 0]

\* Mat3::inverse: the zero matrix when the determinant is zero
Mat3Inverse(m) == IF m.num = 0 THEN [num |-> 0, den |-> 1] ELSE [num |-> m.den, den |-> m.num]

Mat3MulVec(m, v) == Div(m.num * v, m.den)

RigidBodyDataNew(rigid_body, rb_properties, collider) ==
    [id |-> rigid_body.id,
     rb |-> rigid_body,
     shape |-> ShapeWrapperFrom(collider),
     mass |-> rb_properties.mass,
     inv_mass |-> rb_properties.inv_mass,
     friction_static_coefficient |-> rb_properties.friction_static_coefficient,
     friction_dynamic_coefficient |-> rb_properties.friction_dynamic_coefficient,
     restitution_coefficient |-> rb_properties.restitution_coefficient,
     inertia_tensor |-> InertiaTensor(collider, rb_properties.mass),
     inv_inertia_tensor |-> Mat3Inverse(InertiaTensor(collider, rb_properties.mass)),
     pre_solve_linear_velocity |-> rigid_body.linear_velocity,
     pre_solve_angular_velocity |-> rigid_body.angular_velocity,
     previous_position |-> rigid_body.position,
     previous_rotation |-> rigid_body.rotation,
     is_dirty |-> FALSE]

\* the unwrap() calls of RigidBodyData::collect succeed
RigidBodyDataCollectOk(world_id, colliders) ==
    \A rb \in RigidBodyAll(world_id) :
        /\ HasRow(RigidBodyPropertiesAll(world_id), rb.properties_id)
        /\ HasRow(colliders, rb.collider_id)

RigidBodyDataCollect(world_id, colliders) ==
    LET rb_properties == RigidBodyPropertiesAll(world_id)
        rows == RowsById(RigidBodyAll(world_id))
    IN  [n \in 1..Len(rows) |->
            RigidBodyDataNew(rows[n], Row(rb_properties, rows[n].properties_id),
                             Row(colliders, rows[n].collider_id))]

TriggerDataNew(trigger, collider) ==
    [collider_id |-> collider.id,
     trigger_id |-> trigger.id,
     world_id |-> trigger.world_id,
     shape |-> ShapeWrapperFrom(collider),
     isometry |-> [translation |-> trigger.position,
                   rotation |-> ToUnitQuaternion(trigger.rotation)],
     current_entities_inside |-> SetOf(trigger.entities_inside),
     added_entities |-> {},
     removed_entities |-> {},
     new_entities_inside |-> {}]

\* the unwrap() of TriggerData::collect succeeds
TriggerDataCollectOk(world_id, colliders) ==
    \A t \in TriggerAll(world_id) : HasRow(colliders, t.collider_id)

TriggerDataCollect(world_id, colliders) ==
    LET rows == RowsById(TriggerAll(world_id))
    IN  [n \in 1..Len(rows) |-> TriggerDataNew(rows[n], Row(colliders, rows[n].collider_id))]

-----------------------------------------------------------------------------
(* RigidBodyData accessors and setters *)

IsDynamic(body) == body.rb.body_type = "Dynamic"

IsKinematic(body) == body.rb.body_type = "Kinematic"

SetPosition(body, position) ==
    [body EXCEPT !.rb.position = position, !.is_dirty = TRUE]

SetRotation(body, rotation) ==
    [body EXCEPT !.rb.rotation = QuatNormalize(rotation), !.is_dirty = TRUE]

SetLinearVelocity(body, velocity) == [body EXCEPT !.rb.linear_velocity = velocity]

SetAngularVelocity(body, velocity) ==
    [body EXCEPT !.rb.angular_velocity = velocity, !.is_dirty = TRUE]

SetForce(body, force) == [body EXCEPT !.rb.force = force, !.is_dirty = TRUE]

SetTorque(body, torque) == [body EXCEPT !.rb.torque = torque, !.is_dirty = TRUE]

\* r * inv_inertia_tensor * r^T for an isotropic tensor
EffectiveInverseInertia(body) == body.inv_inertia_tensor

CombineStaticFriction(a, b) ==
    Div(a.friction_static_coefficient + b.friction_static_coefficient, 2)

CombineRestitution(a, b) ==
    Div(a.restitution_coefficient + b.restitution_coefficient, 2)

-----------------------------------------------------------------------------
(* sync_kinematic_bodies *)

\* the HashMap collected from the iterator: a later entry replaces an earlier one
KineMap(overrides) ==
    [id \in {overrides[n].id : n \in 1..Len(overrides)} |->
        LET last == CHOOSE n \in 1..Len(overrides) :
                        /\ overrides[n].id = id
                        /\ \A m \in 1..Len(overrides) : overrides[m].id = id => m <= n
        IN  overrides[last]]

\* variant: the override of any body is applied, whatever its type
SyncKinematicBodyAnyType(entity, kine) ==
    IF entity.id \notin DOMAIN kine THEN entity
    ELSE SetPosition(SetRotation(entity, kine[entity.id].rotation), kine[entity.id].position)

SyncKinematicBody(entity, kine) ==
    IF ~IsKinematic(entity) THEN entity
    ELSE IF entity.id \notin DOMAIN kine THEN entity
    ELSE SetPosition(SetRotation(entity, kine[entity.id].rotation), kine[entity.id].position)

SyncKinematicBodies(overrides, bodies) ==
    LET kine == KineMap(overrides)
    IN  [n \in 1..Len(bodies) |-> SyncKinematicBody(bodies[n], kine)]

-----------------------------------------------------------------------------
(* Broad phase *)

PredictionDistance(w) == w.normalized_prediction_distance * w.length_unit

Aabb(mins, maxs) == [mins |-> mins, maxs |-> maxs]

AabbIntersects(a, b) == a.mins <= b.maxs /\ b.mins <= a.maxs

\* the largest coordinate of a bounding volume, where the source has f32::MAX
MaxValue == 500000000

\* shape.aabb(isometry).loosened(prediction_distance): of a ball the interval of
\* its radius about the centre, of a half-space the whole axis
CollisionAabb(shape, translation, prediction_distance) ==
    IF shape.type = "Plane" THEN Aabb(-MaxValue, MaxValue)
    ELSE Aabb(translation - shape.radius - prediction_distance,
              translation + shape.radius + prediction_distance)

Collidable(id, rigidbody_index, trigger_index, is_trigger, collidable_index) ==
    [id |-> id, rigidbody_index |-> rigidbody_index, trigger_index |-> trigger_index,
     is_trigger |-> is_trigger, collidable_index |-> collidable_index]

\* indices count from 0 as in the source; bodies[i] of the source is bodies[i + 1]
CollectCollidables(bodies, trigs, prediction_distance) ==
    [n \in 1..(Len(bodies) + Len(trigs)) |->
        IF n <= Len(bodies)
        THEN [data |-> Collidable(bodies[n].id, n - 1, 0, FALSE, n - 1),
              aabb |-> CollisionAabb(bodies[n].shape, bodies[n].rb.position,
                                     prediction_distance)]
        ELSE LET i == n - Len(bodies) IN
             [data |-> Collidable(trigs[i].trigger_id, 0, i - 1, TRUE,
                                  (i - 1) + Len(bodies)),
              aabb |-> CollisionAabb(trigs[i].shape, trigs[i].isometry.translation,
                                     prediction_distance)]]

\* Qbvh::clear_and_rebuild: each leaf volume grows by its extents times the
\* dilation factor (the factor is kept in thousandths)
QbvhRebuild(collidables, dilation_factor) ==
    {[data |-> collidables[n].data,
      aabb |-> LET box == collidables[n].aabb
                   dilation == Div((box.maxs - box.mins) * dilation_factor, 1000)
               IN  Aabb(box.mins - dilation, box.maxs + dilation)]
     : n \in 1..Len(collidables)}

\* The pairs of leaves the simultaneous traversal of the tree against itself hands
\* to the visitor: every leaf against itself, and each two leaves whose volumes
\* intersect in one order, the other, or both
ReportOrders == {"ab", "ba", "both"}

TraverseBvtt(qbvh, report) ==
    LET reported == {p \in qbvh \X qbvh :
            /\ AabbIntersects(p[1].aabb, p[2].aabb)
            /\ report = "ab" => p[1].data.collidable_index <= p[2].data.collidable_index
            /\ report = "ba" => p[1].data.collidable_index >= p[2].data.collidable_index}
    IN  {<<p[1].data, p[2].data>> : p \in reported}

\* variant: the pair is kept in the order the traversal reports it
VisitPairAsReported(a, b) == IF a # b THEN {<<a, b>>} ELSE {}

\* the visitor's callback: one pair, or nothing
VisitPair(a, b) ==
    IF a # b
    THEN {IF a.collidable_index < b.collidable_index THEN <<a, b>> ELSE <<b, a>>}
    ELSE {}

\* run_broad_phase_pairs: the HashSet of pairs
RunBroadPhasePairs(qbvh, report) ==
    UNION {VisitPair(p[1], p[2]) : p \in TraverseBvtt(qbvh, report)}

\* the segment of a ray, as a volume on the axis
RaySegment(raycast) ==
    LET far == raycast.origin + raycast.direction * raycast.max_distance
    IN  Aabb(Min(raycast.origin, far), Max(raycast.origin, far))

\* run_broad_phase_raycast_pairs: raycast index -> the bodies on its path; a raycast
\* with no body on its path gets no entry
RunBroadPhaseRaycastPairs(qbvh, rays) ==
    LET found(i) == {l.data : l \in {l \in qbvh : /\ ~l.data.is_trigger
                                                  /\ AabbIntersects(l.aabb, RaySegment(rays[i + 1]))}}
    IN  [i \in {i \in 0..(Len(rays) - 1) : found(i) # {}} |-> found(i)]

-----------------------------------------------------------------------------
(* Narrow phase: penetration constraints *)

\* parry3d contact of two balls: none beyond the prediction distance
BallContact(pa, ra, pb, rb, prediction) ==
    LET dist == Abs(pb - pa) - ra - rb
        normal == Sign(pb - pa)
    IN  IF dist > prediction THEN {}
        ELSE {[point1 |-> pa + normal * ra, point2 |-> pb - normal * rb,
               normal1 |-> normal, dist |-> dist]}

\* the contact of a half-space at pa with normal n and a ball: the deepest point
\* of the ball and its distance along the normal from the plane
HalfSpaceBallContact(pa, n, pb, rb, prediction) ==
    LET deepest == pb - n * rb
        dist == n * (deepest - pa)
    IN  IF dist > prediction THEN {}
        ELSE {[point1 |-> deepest - n * dist, point2 |-> deepest,
               normal1 |-> n, dist |-> dist]}

\* ShapeWrapper::contact: the first shape's point, the second shape's point, the
\* normal on the first shape and the signed distance; none for two half-spaces
ShapeContact(shape_a, pa, shape_b, pb, prediction) ==
    IF shape_a.type = "Sphere" /\ shape_b.type = "Sphere"
    THEN BallContact(pa, shape_a.radius, pb, shape_b.radius, prediction)
    ELSE IF shape_a.type = "Plane" /\ shape_b.type = "Sphere"
    THEN HalfSpaceBallContact(pa, shape_a.normal, pb, shape_b.radius, prediction)
    ELSE IF shape_a.type = "Sphere" /\ shape_b.type = "Plane"
    THEN {[point1 |-> c.point2, point2 |-> c.point1, normal1 |-> -c.normal1, dist |-> c.dist]
          : c \in HalfSpaceBallContact(pb, shape_b.normal, pa, shape_a.radius, prediction)}
    ELSE {}

TestCollision(body_a, body_b, prediction) ==
    {[world_a |-> contact.point1,
      world_b |-> contact.point2,
      local_a |-> QuatRotate(QuatInverse(body_a.rb.rotation),
                             contact.point1 - body_a.rb.position),
      local_b |-> QuatRotate(QuatInverse(body_b.rb.rotation),
                             contact.point2 - body_b.rb.position),
      normal |-> contact.normal1,
      distance |-> contact.dist]
     : contact \in ShapeContact(body_a.shape, body_a.rb.position,
                                body_b.shape, body_b.rb.position, prediction)}

PenetrationConstraintNew(a, b, point, compliance) ==
    [a |-> a.id, b |-> b.id,
     world_a |-> point.world_a, world_b |-> point.world_b,
     local_a |-> point.local_a, local_b |-> point.local_b,
     normal |-> point.normal,
     penetration_depth |-> point.distance,
     compliance |-> compliance,
     normal_lagrange |-> 0, normal_force |-> 0,
     tangential_lagrange |-> 0, static_friction_force |-> 0,
     tangent_lagrange |-> 0]

\* the assertions of get_bodies_direct hold
GetBodiesDirectOk(index_a, index_b, bodies) ==
    /\ index_a # index_b
    /\ index_a < Len(bodies) /\ index_b < Len(bodies)

\* variant: no pair is skipped
IsBodyPairAlways(pair) == TRUE

\* the pairs narrow_phase_constraints does not skip as trigger pairs
IsBodyPair(pair) == ~(pair[1].is_trigger \/ pair[2].is_trigger)

\* the contacts of the model stay on the axis: parry3d gives two balls with the
\* same centre a normal along y
OnAxis(pairs, bodies) ==
    \A n \in 1..Len(pairs) :
        (/\ ~pairs[n][1].is_trigger
         /\ ~pairs[n][2].is_trigger
         /\ bodies[pairs[n][1].rigidbody_index + 1].shape.type = "Sphere"
         /\ bodies[pairs[n][2].rigidbody_index + 1].shape.type = "Sphere") =>
            bodies[pairs[n][1].rigidbody_index + 1].rb.position
                # bodies[pairs[n][2].rigidbody_index + 1].rb.position

NarrowPhaseConstraintsOk(pairs, bodies) ==
    \A n \in 1..Len(pairs) :
        IsBodyPair(pairs[n]) =>
            GetBodiesDirectOk(pairs[n][1].rigidbody_index, pairs[n][2].rigidbody_index, bodies)

\* the constraint of one pair, or none
\* variant: a contact is kept whatever its distance
PairConstraintAnyDistance(w, pair, bodies) ==
    IF ~IsBodyPair(pair) THEN << >>
    ELSE LET body_a == bodies[pair[1].rigidbody_index + 1]
             body_b == bodies[pair[2].rigidbody_index + 1]
             contacts == TestCollision(body_a, body_b, w.precision)
         IN  IF contacts = {} THEN << >>
             ELSE <<PenetrationConstraintNew(body_a, body_b, CHOOSE c \in contacts : TRUE, 0)>>

PairConstraint(w, pair, bodies) ==
    IF ~IsBodyPair(pair) THEN << >>
    ELSE LET body_a == bodies[pair[1].rigidbody_index + 1]
             body_b == bodies[pair[2].rigidbody_index + 1]
             penetrating == {c \in TestCollision(body_a, body_b, w.precision) : ~(c.distance >= 0)}
         IN  IF penetrating = {} THEN << >>
             ELSE <<PenetrationConstraintNew(body_a, body_b, CHOOSE c \in penetrating : TRUE, 0)>>

RECURSIVE NarrowPhaseConstraints(_, _, _)
NarrowPhaseConstraints(w, pairs, bodies) ==
    IF pairs = << >> THEN << >>
    ELSE PairConstraint(w, Head(pairs), bodies) \o NarrowPhaseConstraints(w, Tail(pairs), bodies)

-----------------------------------------------------------------------------
(* XPBD: integrate, solve constraints, recompute and solve velocities *)

\* variant: the force and the torque are kept
IntegrateBodyKeepForce(body, w, delta_time) ==
    IF ~IsDynamic(body) THEN body
    ELSE
    LET b1 == [body EXCEPT !.previous_position = body.rb.position]
        weight == w.gravity * b1.mass
        total_force == b1.rb.force + weight
        b2 == SetLinearVelocity(b1, b1.rb.linear_velocity + total_force * b1.inv_mass * delta_time)
        b3 == SetPosition(b2, b2.rb.position + b2.rb.linear_velocity * delta_time)
        b4 == [b3 EXCEPT !.previous_rotation = b3.rb.rotation]
        angular_acceleration == Mat3MulVec(b4.inv_inertia_tensor, b4.rb.torque)
        b5 == SetAngularVelocity(b4, b4.rb.angular_velocity + delta_time * angular_acceleration)
        dq == QuatHalfScale(delta_time,
                            QuatMul(b5.rb.rotation, QuatFromXyz(b5.rb.angular_velocity, 0)))
    IN  SetRotation(b5, QuatAdd(b5.rb.rotation, dq))

IntegrateBody(body, w, delta_time) ==
    IF ~IsDynamic(body) THEN body
    ELSE
    LET b1 == [body EXCEPT !.previous_position = body.rb.position]
        weight == w.gravity * b1.mass
        total_force == b1.rb.force + weight
        b2 == SetLinearVelocity(b1, b1.rb.linear_velocity + total_force * b1.inv_mass * delta_time)
        b3 == SetPosition(b2, b2.rb.position + b2.rb.linear_velocity * delta_time)
        b4 == [b3 EXCEPT !.previous_rotation = b3.rb.rotation]
        omega == b4.rb.angular_velocity
        i_omega == Mat3MulVec(b4.inertia_tensor, omega)
        gyro == Cross(omega, i_omega)
        angular_acceleration == Mat3MulVec(b4.inv_inertia_tensor, b4.rb.torque - gyro)
        b5 == SetAngularVelocity(b4, b4.rb.angular_velocity + delta_time * angular_acceleration)
        dq == QuatHalfScale(delta_time,
                            QuatMul(b5.rb.rotation, QuatFromXyz(b5.rb.angular_velocity, 0)))
        b6 == SetRotation(b5, QuatAdd(b5.rb.rotation, dq))
    IN  SetForce(SetTorque(b6, 0), 0)

IntegrateBodies(bodies, w, delta_time) ==
    [n \in 1..Len(bodies) |-> IntegrateBody(bodies[n], w, delta_time)]

ComputeGeneralizedInverseMass(body, r, n) ==
    LET r_cross_n == Cross(r, n)
    IN  body.inv_mass + Dot(r_cross_n, Mat3MulVec(EffectiveInverseInertia(body), r_cross_n))

\* the divisor of compute_lagrange_update is not zero: the quotient is finite
LagrangeFinite(inverse_masses, gradients, compliance, dt) ==
    inverse_masses[1] * (gradients[1] * gradients[1])
        + inverse_masses[2] * (gradients[2] * gradients[2])
        + Div(compliance, dt * dt) # 0

\* w_sum == f32::EPSILON never holds for a multiple of the unit, 0 included; the
\* quotient is taken where LagrangeFinite holds
ComputeLagrangeUpdate(lagrange, c, gradients, inverse_masses, compliance, dt) ==
    LET w_sum == inverse_masses[1] * (gradients[1] * gradients[1])
                 + inverse_masses[2] * (gradients[2] * gradients[2])
        a_tilde == Div(compliance, dt * dt)
    IN  Div(-c - a_tilde * lagrange, w_sum + a_tilde)

ApplyBodyCorrection(body, p, r, sign) ==
    LET moved == SetPosition(body, body.rb.position + sign * p * body.inv_mass)
        delta_angle == sign * Mat3MulVec(EffectiveInverseInertia(moved), Cross(r, p))
        dq == QuatFromScaledAxis(delta_angle)
    IN  SetRotation(moved, QuatMul(dq, moved.rb.rotation))

\* variant: both bodies are corrected, whatever their type
ApplyPositionCorrectionAnyBody(body_a, body_b, delta_lagrange, direction, ra, rb) ==
    IF BelowEpsilon(Abs(delta_lagrange)) THEN <<body_a, body_b>>
    ELSE LET p == delta_lagrange * direction
         IN  <<ApplyBodyCorrection(body_a, p, ra, 1), ApplyBodyCorrection(body_b, p, rb, -1)>>

\* the two bodies after the correction
ApplyPositionCorrection(body_a, body_b, delta_lagrange, direction, ra, rb) ==
    IF BelowEpsilon(Abs(delta_lagrange)) THEN <<body_a, body_b>>
    ELSE LET p == delta_lagrange * direction
         IN  <<IF IsDynamic(body_a) THEN ApplyBodyCorrection(body_a, p, ra, 1) ELSE body_a,
               IF IsDynamic(body_b) THEN ApplyBodyCorrection(body_b, p, rb, -1) ELSE body_b>>

\* the lever arms ra and rb of solve_contact
ContactLeverArms(constraint, body_a, body_b) ==
    <<QuatRotate(body_a.rb.rotation, constraint.local_a),
      QuatRotate(body_b.rb.rotation, constraint.local_b)>>

\* <<constraint, body_a, body_b>> after solve_contact
SolveContact(constraint, body_a, body_b, dt) ==
    LET normal == constraint.normal
        ra == ContactLeverArms(constraint, body_a, body_b)[1]
        rb == ContactLeverArms(constraint, body_a, body_b)[2]
    IN  IF constraint.penetration_depth >= 0 THEN <<constraint, body_a, body_b>>
        ELSE
        LET wa == ComputeGeneralizedInverseMass(body_a, ra, normal)
            wb == ComputeGeneralizedInverseMass(body_b, rb, normal)
            delta_lagrange ==
                ComputeLagrangeUpdate(constraint.normal_lagrange, constraint.penetration_depth,
                                      <<normal, -normal>>, <<wa, wb>>,
                                      constraint.compliance, dt)
            lagrange == constraint.normal_lagrange + delta_lagrange
            moved == ApplyPositionCorrection(body_a, body_b, delta_lagrange, normal, ra, rb)
        IN  <<[constraint EXCEPT !.normal_lagrange = lagrange,
                                 !.normal_force = Div(lagrange * normal, dt * dt)],
              moved[1], moved[2]>>

\* the lever arms r1 and r2 of solve_friction
FrictionLeverArms(constraint) == <<constraint.world_a, constraint.world_b>>

\* <<constraint, body1, body2>> after solve_friction
SolveFriction(constraint, body1, body2, dt) ==
    LET normal == constraint.normal
        r1 == FrictionLeverArms(constraint)[1]
        r2 == FrictionLeverArms(constraint)[2]
        p1 == body1.rb.position + QuatRotate(body1.rb.rotation, constraint.local_a)
        p2 == body2.rb.position + QuatRotate(body2.rb.rotation, constraint.local_b)
        prev_p1 == body1.previous_position + QuatRotate(body1.previous_rotation, constraint.local_a)
        prev_p2 == body2.previous_position + QuatRotate(body2.previous_rotation, constraint.local_b)
        delta_p == (p1 - prev_p1) - (p2 - prev_p2)
        delta_p_tangent == delta_p - Dot(delta_p, normal) * normal
        sliding_len == Length(delta_p_tangent)
    IN  IF BelowEpsilon(sliding_len) THEN <<constraint, body1, body2>>
        ELSE
        LET tangent == Div(delta_p_tangent, sliding_len)
            w1 == ComputeGeneralizedInverseMass(body1, r1, tangent)
            w2 == ComputeGeneralizedInverseMass(body2, r2, tangent)
            static_coefficient == CombineStaticFriction(body1, body2)
        IN  IF sliding_len < static_coefficient * constraint.penetration_depth
            THEN LET delta_lagrange ==
                         ComputeLagrangeUpdate(constraint.tangential_lagrange, sliding_len,
                                               <<tangent, -tangent>>, <<w1, w2>>,
                                               constraint.compliance, dt)
                     lagrange == constraint.tangent_lagrange + delta_lagrange
                     moved == ApplyPositionCorrection(body1, body2, delta_lagrange,
                                                      tangent, r1, r2)
                 IN  <<[constraint EXCEPT !.tangent_lagrange = lagrange,
                                          !.static_friction_force = Div(lagrange * tangent, dt * dt)],
                       moved[1], moved[2]>>
            ELSE <<constraint, body1, body2>>

\* the index (from 1) of the body with this id in the id-sorted array
IndexOfId(bodies, id) == CHOOSE n \in 1..Len(bodies) : bodies[n].id = id

\* variant: the body of the larger id comes first
GetBodiesMutLargerFirst(id_a, id_b, bodies) ==
    <<IndexOfId(bodies, Max(id_a, id_b)), IndexOfId(bodies, Min(id_a, id_b))>>

\* the assertion of get_bodies_mut holds and its two searches find their ids:
\* the larger id in bodies, the smaller id to the left of it
GetBodiesMutOk(id_a, id_b, bodies) ==
    /\ id_a # id_b
    /\ \E mid \in 1..Len(bodies) :
           /\ bodies[mid].id = Max(id_a, id_b)
           /\ \E i \in 1..(mid - 1) : bodies[i].id = Min(id_a, id_b)

\* get_bodies_mut: the places of the body of the smaller id and of the other one
GetBodiesMut(id_a, id_b, bodies) ==
    <<IndexOfId(bodies, Min(id_a, id_b)), IndexOfId(bodies, Max(id_a, id_b))>>

\* PenetrationConstraint::solve: <<constraint, bodies>> afterwards
ConstraintSolve(constraint, bodies, dt) ==
    LET at == GetBodiesMut(constraint.a, constraint.b, bodies)
        contact == SolveContact(constraint, bodies[at[1]], bodies[at[2]], dt)
        friction == SolveFriction(contact[1], contact[2], contact[3], dt)
    IN  <<friction[1],
          [bodies EXCEPT ![at[1]] = friction[2], ![at[2]] = friction[3]]>>

\* solve_constraints: <<constraints, bodies>> after one sweep in the order of the slice
RECURSIVE SolveConstraintsFrom(_, _, _, _)
SolveConstraintsFrom(n, constraints, bodies, dt) ==
    IF n > Len(constraints) THEN <<constraints, bodies>>
    ELSE LET solved == ConstraintSolve(constraints[n], bodies, dt)
         IN  SolveConstraintsFrom(n + 1, [constraints EXCEPT ![n] = solved[1]], solved[2], dt)

SolveConstraints(constraints, bodies, dt) == SolveConstraintsFrom(1, constraints, bodies, dt)

\* every division of solve_contact in a sweep of the constraints has a divisor
\* other than zero (the generalized inverse masses do not change in the sweep)
SolveConstraintsFinite(constraints, bodies, dt) ==
    \A n \in 1..Len(constraints) :
        LET at == GetBodiesMut(constraints[n].a, constraints[n].b, bodies)
            normal == constraints[n].normal
            wa == ComputeGeneralizedInverseMass(bodies[at[1]], 0, normal)
            wb == ComputeGeneralizedInverseMass(bodies[at[2]], 0, normal)
        IN  constraints[n].penetration_depth < 0 =>
                LagrangeFinite(<<wa, wb>>, <<normal, -normal>>, constraints[n].compliance, dt)

\* variant: the velocities of a body that is not Dynamic are left as they are
RecomputeBodyVelocitiesDynamicOnly(body, dt) ==
    IF ~IsDynamic(body) THEN body
    ELSE
    LET b1 == [body EXCEPT !.pre_solve_linear_velocity = body.rb.linear_velocity]
        b2 == SetLinearVelocity(b1, Div(b1.rb.position - b1.previous_position, dt))
        b3 == [b2 EXCEPT !.pre_solve_angular_velocity = b2.rb.angular_velocity]
    IN  SetAngularVelocity(b3,
            Div(QuatAsRadians(QuatMul(b3.rb.rotation, QuatInverse(b3.previous_rotation))), dt))

RecomputeBodyVelocities(body, dt) ==
    IF ~IsDynamic(body) THEN SetAngularVelocity(SetLinearVelocity(body, 0), 0)
    ELSE
    LET b1 == [body EXCEPT !.pre_solve_linear_velocity = body.rb.linear_velocity]
        b2 == SetLinearVelocity(b1, Div(b1.rb.position - b1.previous_position, dt))
        b3 == [b2 EXCEPT !.pre_solve_angular_velocity = b2.rb.angular_velocity]
    IN  SetAngularVelocity(b3,
            Div(QuatAsRadians(QuatMul(b3.rb.rotation, QuatInverse(b3.previous_rotation))), dt))

RecomputeVelocities(bodies, dt) ==
    [n \in 1..Len(bodies) |-> RecomputeBodyVelocities(bodies[n], dt)]

ComputeContactVel(lin_vel, ang_vel, r) == lin_vel + Cross(ang_vel, r)

ComputeDeltaAngVel(inverse_inertia, r, p) == Mat3MulVec(inverse_inertia, Cross(r, p))

GetDynamicFriction(tangent_vel, coefficient, normal_lagrange, sub_dt) ==
    LET tangent_vel_magnitude == Length(tangent_vel)
    IN  IF BelowEpsilon(Abs(tangent_vel_magnitude)) THEN 0
        ELSE LET normal_force == Div(normal_lagrange, sub_dt * sub_dt)
                 dir == Div(tangent_vel, tangent_vel_magnitude)
             IN  (-dir) * Min(sub_dt * coefficient * Abs(normal_force), tangent_vel_magnitude)

GetRestitution(normal, normal_vel, pre_solve_normal_vel, coefficient, gravity, sub_dt) ==
    LET e == IF Abs(normal_vel) <= 2 * Length(gravity) * sub_dt THEN 0 ELSE coefficient
    IN  normal * (-normal_vel + Min(-e * pre_solve_normal_vel, 0))

\* one constraint of solve_velocities: the bodies afterwards
\* the lever arms r of body1 and body2 that solve_velocities hands to
\* compute_contact_vel, compute_generalized_inverse_mass and compute_delta_ang_vel
VelocityLeverArms(constraint) == <<constraint.world_a, constraint.world_b>>

SolveVelocity(w, constraint, bodies, dt) ==
    LET at == GetBodiesMut(constraint.a, constraint.b, bodies)
        body1 == bodies[at[1]]
        body2 == bodies[at[2]]
        normal == constraint.normal
        pre_solve_relative_vel ==
            ComputeContactVel(body1.pre_solve_linear_velocity,
                              body1.pre_solve_angular_velocity,
                              VelocityLeverArms(constraint)[1])
            - ComputeContactVel(body2.pre_solve_linear_velocity,
                                body2.pre_solve_angular_velocity,
                                VelocityLeverArms(constraint)[2])
        pre_solve_normal_vel == Dot(normal, pre_solve_relative_vel)
        relative_vel ==
            ComputeContactVel(body1.rb.linear_velocity, body1.rb.angular_velocity,
                              VelocityLeverArms(constraint)[1])
            - ComputeContactVel(body2.rb.linear_velocity, body2.rb.angular_velocity,
                                VelocityLeverArms(constraint)[2])
        normal_vel == Dot(normal, relative_vel)
        tangent_vel == relative_vel - normal * normal_vel
        friction_impulse ==
            GetDynamicFriction(tangent_vel,
                Div(body1.friction_dynamic_coefficient + body2.friction_dynamic_coefficient, 2),
                constraint.normal_lagrange, dt)
        restitution_impulse ==
            GetRestitution(normal, normal_vel, pre_solve_normal_vel,
                           CombineRestitution(body1, body2), w.gravity, dt)
        delta_v == friction_impulse + restitution_impulse
        delta_v_length == Length(delta_v)
    IN  IF BelowEpsilon(delta_v_length) THEN bodies
        ELSE
        LET delta_v_dir == Div(delta_v, delta_v_length)
            w1 == ComputeGeneralizedInverseMass(body1, VelocityLeverArms(constraint)[1],
                                                delta_v_dir)
            w2 == ComputeGeneralizedInverseMass(body2, VelocityLeverArms(constraint)[2],
                                                delta_v_dir)
            p == Div(delta_v, w1 + w2)
            after1 ==
                IF IsDynamic(body1)
                THEN SetAngularVelocity(
                         SetLinearVelocity(body1, body1.rb.linear_velocity + p * body1.inv_mass),
                         body1.rb.angular_velocity
                         + ComputeDeltaAngVel(EffectiveInverseInertia(body1),
                                              VelocityLeverArms(constraint)[1], p))
                ELSE body1
            after2 ==
                IF IsDynamic(body2)
                THEN SetAngularVelocity(
                         SetLinearVelocity(body2, body2.rb.linear_velocity - p * body2.inv_mass),
                         body2.rb.angular_velocity
                         - ComputeDeltaAngVel(EffectiveInverseInertia(body2),
                                              VelocityLeverArms(constraint)[2], p))
                ELSE body2
        IN  [bodies EXCEPT ![at[1]] = after1, ![at[2]] = after2]

RECURSIVE SolveVelocitiesFrom(_, _, _, _, _)
SolveVelocitiesFrom(n, w, constraints, bodies, dt) ==
    IF n > Len(constraints) THEN bodies
    ELSE SolveVelocitiesFrom(n + 1, w, constraints,
                             SolveVelocity(w, constraints[n], bodies, dt), dt)

SolveVelocities(w, constraints, bodies, dt) == SolveVelocitiesFrom(1, w, constraints, bodies, dt)

-----------------------------------------------------------------------------
(* Narrow phase: triggers *)

\* parry3d intersection_test of two balls
BallIntersects(pa, ra, pb, rb) == Abs(pb - pa) <= ra + rb

\* ShapeWrapper::intersects: a half-space and a ball intersect when the deepest
\* point of the ball is not above the plane; two half-spaces are not tested
ShapeIntersects(shape_a, pa, shape_b, pb) ==
    IF shape_a.type = "Sphere" /\ shape_b.type = "Sphere"
    THEN BallIntersects(pa, shape_a.radius, pb, shape_b.radius)
    ELSE IF shape_a.type = "Plane" /\ shape_b.type = "Sphere"
    THEN shape_a.normal * (pb - shape_a.normal * shape_b.radius - pa) <= 0
    ELSE IF shape_a.type = "Sphere" /\ shape_b.type = "Plane"
    THEN shape_b.normal * (pa - shape_b.normal * shape_a.radius - pb) <= 0
    ELSE FALSE

HasTrigger(pair) == ~(~pair[1].is_trigger /\ ~pair[2].is_trigger)

\* the places (from 0) in triggers and bodies that the loop indexes for a pair
TriggerOfPair(pair) ==
    IF pair[1].is_trigger THEN pair[1].trigger_index ELSE pair[2].trigger_index

BodyOfPair(pair) ==
    IF pair[1].is_trigger THEN pair[2].rigidbody_index ELSE pair[1].rigidbody_index

\* no index of the loop is out of bounds
NarrowPhaseTriggersOk(pairs, bodies, trigs) ==
    \A n \in 1..Len(pairs) :
        HasTrigger(pairs[n]) =>
            /\ TriggerOfPair(pairs[n]) < Len(trigs)
            /\ BodyOfPair(pairs[n]) < Len(bodies)

TriggerPair(pair, bodies, trigs) ==
    IF ~HasTrigger(pair) THEN trigs
    ELSE LET t == TriggerOfPair(pair) + 1
             body == bodies[BodyOfPair(pair) + 1]
         IN  IF ShapeIntersects(trigs[t].shape, trigs[t].isometry.translation,
                                body.shape, body.rb.position)
             THEN [trigs EXCEPT ![t].new_entities_inside = @ \cup {body.id}]
             ELSE [trigs EXCEPT ![t].new_entities_inside = @ \ {body.id}]

RECURSIVE TriggerPairs(_, _, _)
TriggerPairs(pairs, bodies, trigs) ==
    IF pairs = << >> THEN trigs
    ELSE TriggerPairs(Tail(pairs), bodies, TriggerPair(Head(pairs), bodies, trigs))

\* variant: every body found inside is reported as added
TriggerDiffAllAdded(t) ==
    [t EXCEPT !.added_entities = t.new_entities_inside,
              !.removed_entities = t.current_entities_inside \ t.new_entities_inside,
              !.current_entities_inside = t.new_entities_inside]

\* the second loop of narrow_phase_triggers, on one trigger
TriggerDiff(t) ==
    [t EXCEPT !.added_entities = t.new_entities_inside \ t.current_entities_inside,
              !.removed_entities = t.current_entities_inside \ t.new_entities_inside,
              !.current_entities_inside = t.new_entities_inside]

NarrowPhaseTriggers(pairs, bodies, trigs) ==
    LET tested == TriggerPairs(pairs, bodies, trigs)
    IN  [n \in 1..Len(trigs) |-> TriggerDiff(tested[n])]

\* TriggerData::update: the rows that can be handed to the store, one for each
\* order in which the three HashSets are iterated
TriggerDataRows(t) ==
    {[id |-> t.trigger_id,
      world_id |-> t.world_id,
      position |-> t.isometry.translation,
      rotation |-> FromUnitQuaternion(t.isometry.rotation),
      collider_id |-> t.collider_id,
      entities_inside |-> inside,
      added_entities |-> added,
      removed_entities |-> removed]
     : inside \in Orders(t.current_entities_inside),
       added \in Orders(t.added_entities),
       removed \in Orders(t.removed_entities)}

-----------------------------------------------------------------------------
(* Narrow phase: raycasts *)

\* parry3d ray cast on a half-space: a ray that starts inside a solid one hits at
\* once, any other where it meets the plane
HalfSpaceCastRay(shape, translation, origin, dir, max_time_of_impact, solid) ==
    LET dot_normal_dpos == Dot(shape.normal, translation - origin)
        along == Dot(shape.normal, dir)
    IN  IF solid /\ dot_normal_dpos > 0 THEN {[time_of_impact |-> 0, normal |-> 0]}
        ELSE IF along = 0 THEN {}
        ELSE LET t == Div(dot_normal_dpos, along)
             IN  IF t >= 0 /\ t <= max_time_of_impact
                 THEN {[time_of_impact |-> t,
                        normal |-> IF dot_normal_dpos > 0 THEN -shape.normal ELSE shape.normal]}
                 ELSE {}

\* parry3d ray cast on a ball: time of impact and normal, or none
CastRayAndGetNormal(shape, translation, origin, dir, max_time_of_impact, solid) ==
    IF shape.type = "Plane" THEN HalfSpaceCastRay(shape, translation, origin, dir,
                                                  max_time_of_impact, solid)
    ELSE
    LET dcenter == origin - translation
        b == Dot(dcenter, dir)
        c == Dot(dcenter, dcenter) - shape.radius * shape.radius
        near == -b - shape.radius
        inside == near <= 0
        toi == IF inside THEN (IF solid THEN 0 ELSE -b + shape.radius) ELSE near
        normal == Vec3Normalize(origin + dir * toi - translation)
    IN  IF c > 0 /\ b > 0 THEN {}
        ELSE IF toi > max_time_of_impact THEN {}
        ELSE {[time_of_impact |-> toi, normal |-> IF inside THEN -normal ELSE normal]}

\* the HashSet hits of one raycast
RayCastHits(raycast, broad_hits, bodies) ==
    UNION {{[distance |-> intersection.time_of_impact,
             position |-> raycast.origin + raycast.direction * intersection.time_of_impact,
             normal |-> intersection.normal,
             rigid_body_id |-> bodies[broad_hit.rigidbody_index + 1].id]
            : intersection \in
                CastRayAndGetNormal(bodies[broad_hit.rigidbody_index + 1].shape,
                                    bodies[broad_hit.rigidbody_index + 1].rb.position,
                                    raycast.origin, raycast.direction,
                                    raycast.max_distance, raycast.solid)}
           : broad_hit \in broad_hits}

\* the values one raycast can have after the loop body: the three Vecs are
\* collected from HashSets, in any order
RayCastOutcomes(raycast, broad_hits, bodies) ==
    LET hits == RayCastHits(raycast, broad_hits, bodies)
        previous_hits == SetOf(raycast.hits)
    IN  {[raycast EXCEPT !.added_hits = added, !.removed_hits = removed, !.hits = stored]
         : added \in Orders(hits \ previous_hits),
           removed \in Orders(previous_hits \ hits),
           stored \in Orders(hits)}

\* narrow_phase_raycast: the values the slice of raycasts can have afterwards; a
\* raycast without entry in raycasts_pairs is not visited
NarrowPhaseRaycast(raycasts_pairs, bodies, rays) ==
    Choices([n \in 1..Len(rays) |->
                IF (n - 1) \in DOMAIN raycasts_pairs
                THEN RayCastOutcomes(rays[n], raycasts_pairs[n - 1], bodies)
                ELSE {rays[n]}])

-----------------------------------------------------------------------------
(* The rows of the worlds of the model *)

PhysicsWorldRow(id, sub_step, position_iterations, normalized_prediction_distance) ==
    [id |-> id, time_step |-> 6, sub_step |-> sub_step, gravity |-> 0, precision |-> 0,
     position_iterations |-> position_iterations, qvbh_dilation_factor |-> 1,
     length_unit |-> 1, normalized_prediction_distance |-> normalized_prediction_distance]

\* Collider::sphere
Sphere(id, world_id, radius) ==
    [id |-> id, world_id |-> world_id, radius |-> radius, normal |-> 0,
     collider_type |-> "Sphere"]

\* Collider::plane
Plane(id, world_id, normal) ==
    [id |-> id, world_id |-> world_id, radius |-> 0, normal |-> normal,
     collider_type |-> "Plane"]

RigidBodyPropertiesRow(id, world_id) ==
    [id |-> id, world_id |-> world_id, mass |-> 1, inv_mass |-> 1,
     friction_static_coefficient |-> 1, friction_dynamic_coefficient |-> 1,
     restitution_coefficient |-> 0]

RigidBodyRow(id, world_id, body_type, position, linear_velocity, collider_id, properties_id) ==
    [id |-> id, world_id |-> world_id, position |-> position, rotation |-> QuatIDENTITY,
     linear_velocity |-> linear_velocity, angular_velocity |-> 0, force |-> 0, torque |-> 0,
     collider_id |-> collider_id, properties_id |-> properties_id, body_type |-> body_type]

TriggerRow(id, world_id, position, collider_id) ==
    [id |-> id, world_id |-> world_id, position |-> position, rotation |-> QuatIDENTITY,
     collider_id |-> collider_id, entities_inside |-> << >>, added_entities |-> << >>,
     removed_entities |-> << >>]

\* RayCast::new
RayCastNew(id, world_id, origin, direction, max_distance, solid) ==
    [id |-> id, world_id |-> world_id, origin |-> origin,
     direction |-> Vec3Normalize(direction), max_distance |-> max_distance, solid |-> solid,
     hits |-> << >>, added_hits |-> << >>, removed_hits |-> << >>]

\* KinematicBody = (id, (position, rotation))
KinematicBody(id, position, rotation) == [id |-> id, position |-> position, rotation |-> rotation]

\* a second world, whose Kinematic body and trigger lie where the first world has bodies
OtherWorld ==
    [colliders |-> {Sphere(9, 2, 2)},
     properties |-> {RigidBodyPropertiesRow(9, 2)},
     bodies |-> {RigidBodyRow(9, 2, "Kinematic", 0, 0, 9, 9)},
     triggers |-> {TriggerRow(9, 2, 0, 9)},
     raycasts |-> {RayCastNew(9, 2, 20, -1, 8, FALSE)}]

\* a Static, a Dynamic and a Kinematic body in a row, the Dynamic one in
\* penetrating contact with the Static one; the rows of the Static and the
\* Kinematic body hold velocities, as rows written by an application can
SceneContacts ==
    [colliders |-> {Sphere(1, 1, 4)},
     properties |-> {RigidBodyPropertiesRow(1, 1)},
     bodies |-> {[RigidBodyRow(1, 1, "Static", 0, 3, 1, 1) EXCEPT !.angular_velocity = 1],
                 RigidBodyRow(2, 1, "Dynamic", 6, 0, 1, 1),
                 [RigidBodyRow(3, 1, "Kinematic", 20, 2, 1, 1) EXCEPT !.angular_velocity = 1]},
     triggers |-> {},
     raycasts |-> {}]

\* a Dynamic body flying towards a trigger, a Kinematic body on the path of a ray
SceneQueries ==
    [colliders |-> {Sphere(1, 1, 2)},
     properties |-> {RigidBodyPropertiesRow(1, 1)},
     bodies |-> {RigidBodyRow(2, 1, "Dynamic", 11, -1, 1, 1),
                 RigidBodyRow(3, 1, "Kinematic", 14, 0, 1, 1)},
     triggers |-> {TriggerRow(1, 1, 0, 1)},
     raycasts |-> {RayCastNew(1, 1, 20, -1, 8, FALSE)}]

\* two triggers that overlap, in a world that has no body
SceneTriggers ==
    [colliders |-> {Sphere(1, 1, 2)},
     properties |-> {},
     bodies |-> {},
     triggers |-> {TriggerRow(1, 1, 0, 1), TriggerRow(2, 1, 1, 1)},
     raycasts |-> {}]

\* a Static and a Dynamic body in penetrating contact, whose properties have
\* mass 0 and so inv_mass 0
SceneMassless ==
    [colliders |-> {Sphere(1, 1, 4)},
     properties |-> {[RigidBodyPropertiesRow(1, 1) EXCEPT !.mass = 0, !.inv_mass = 0]},
     bodies |-> {RigidBodyRow(1, 1, "Static", 0, 0, 1, 1),
                 RigidBodyRow(2, 1, "Dynamic", 6, 0, 1, 1)},
     triggers |-> {},
     raycasts |-> {}]

Scenes == {SceneContacts, SceneQueries, SceneTriggers, SceneMassless}

\* what a caller hands to step_world as kinematic_entities
KinematicInputs ==
    {<< >>,
     <<KinematicBody(3, 4, QuatIDENTITY)>>,
     <<KinematicBody(3, 12, Quat(0, 0, 0, 2))>>,
     <<KinematicBody(2, 12, QuatIDENTITY), KinematicBody(9, 6, QuatIDENTITY)>>,
     <<KinematicBody(3, 12, QuatIDENTITY), KinematicBody(3, 4, QuatIDENTITY)>>}

-----------------------------------------------------------------------------
(* The gyrii module before its first reducer call *)

\* the tables of a module that has just been published are empty, and its
\* auto_inc columns have given no id
GyriiInit ==
    /\ lobby = {}
    /\ lobby_player = {}
    /\ player = {}
    /\ physics_tick_timer = {}
    /\ rapier_physics_world = {}
    /\ rapier_rigid_body = {}
    /\ auto_inc = [lobby |-> 0, lobby_player |-> 0, physics_tick_timer |-> 0,
                   rapier_physics_world |-> 0, rapier_rigid_body |-> 0]
    /\ timestamp = 0

-----------------------------------------------------------------------------
(* The state machine *)

Idle == pc \in {"idle", "done", "aborted", "panicked"}

\* step_world has loaded its data and has not returned
InStep ==
    pc \in {"sync", "broad", "narrow", "integrate", "solve", "recompute", "velocities",
            "triggers", "raycast", "update"}

\* world.time_step / world.sub_step; infinite, and never used, when sub_step is 0
Dt(w) == IF w.sub_step = 0 THEN 0 ELSE Div(w.time_step, w.sub_step)

NoRun == [set |-> FALSE, tables |-> << >>]

Init ==
    \E scene \in Scenes, sub_step \in 0..MaxSubStep,
       position_iterations \in 1..MaxPositionIterations,
       normalized_prediction_distance \in {0, 1} :
        /\ physics_world = {PhysicsWorldRow(1, sub_step, position_iterations,
                                            normalized_prediction_distance),
                            PhysicsWorldRow(2, 1, 1, 0)}
        /\ physics_colliders = scene.colliders \cup OtherWorld.colliders
        /\ physics_rigid_body_properties = scene.properties \cup OtherWorld.properties
        /\ physics_rigid_bodies = scene.bodies \cup OtherWorld.bodies
        /\ physics_triggers = scene.triggers \cup OtherWorld.triggers
        /\ physics_raycasts = scene.raycasts \cup OtherWorld.raycasts
        /\ pc = "idle"
        /\ world = PhysicsWorldRow(1, sub_step, position_iterations,
                                   normalized_prediction_distance)
        /\ kinematic_entities = << >>
        /\ entities = << >>
        /\ triggers = << >>
        /\ raycasts = << >>
        /\ collision_detection = [pairs |-> << >>, raycasts_pairs |-> << >>]
        /\ penetration_constraints = << >>
        /\ substep = 0
        /\ iteration = 0
        /\ snapshot = <<physics_world, physics_colliders, physics_rigid_body_properties,
                        physics_rigid_bodies, physics_triggers, physics_raycasts>>
        /\ steps = << >>
        /\ first_run = NoRun
        /\ GyriiInit

\* variant: a body or trigger whose collider or properties are missing is left out
LoadDataSkipMissing(w, overrides) ==
    /\ IF pc = "rerun"
       THEN /\ w = world
            /\ overrides = kinematic_entities
            /\ UNCHANGED <<snapshot, steps, first_run>>
       ELSE /\ Idle
            /\ Len(steps) < MaxSteps
            /\ snapshot' = tables
            /\ steps' = Append(steps, w.id)
            /\ first_run' = NoRun
    /\ world' = w
    /\ kinematic_entities' = overrides
    /\ LET colliders == ColliderAll(w.id)
           rb_properties == RigidBodyPropertiesAll(w.id)
           trigger_rows == RowsById({t \in TriggerAll(w.id) : HasRow(colliders, t.collider_id)})
           rows == RowsById({rb \in RigidBodyAll(w.id) :
                               /\ HasRow(rb_properties, rb.properties_id)
                               /\ HasRow(colliders, rb.collider_id)})
       IN  /\ triggers' = [n \in 1..Len(trigger_rows) |->
                              TriggerDataNew(trigger_rows[n],
                                             Row(colliders, trigger_rows[n].collider_id))]
           /\ entities' = [n \in 1..Len(rows) |->
                              RigidBodyDataNew(rows[n], Row(rb_properties, rows[n].properties_id),
                                               Row(colliders, rows[n].collider_id))]
           /\ raycasts' = RowsById(RayCastAll(w.id))
           /\ pc' = "sync"
    /\ collision_detection' = [pairs |-> << >>, raycasts_pairs |-> << >>]
    /\ penetration_constraints' = << >>
    /\ substep' = 0
    /\ iteration' = 0
    /\ UNCHANGED <<tables, gyrii>>

\* step_world is called and loads its data; an unwrap() on a missing row panics;
\* limit bounds the number of calls
StepWorldLoad(w, overrides, limit) ==
    /\ IF pc = "rerun"
       THEN /\ w = world
            /\ overrides = kinematic_entities
            /\ UNCHANGED <<snapshot, steps, first_run>>
       ELSE /\ Idle
            /\ Len(steps) < limit
            /\ snapshot' = tables
            /\ steps' = Append(steps, w.id)
            /\ first_run' = NoRun
    /\ world' = w
    /\ kinematic_entities' = overrides
    /\ LET colliders == ColliderAll(w.id)
       IN  IF TriggerDataCollectOk(w.id, colliders) /\ RigidBodyDataCollectOk(w.id, colliders)
           THEN /\ triggers' = TriggerDataCollect(w.id, colliders)
                /\ entities' = RigidBodyDataCollect(w.id, colliders)
                /\ raycasts' = RowsById(RayCastAll(w.id))
                /\ pc' = "sync"
           ELSE /\ triggers' = << >>
                /\ entities' = << >>
                /\ raycasts' = << >>
                /\ pc' = "aborted"
    /\ collision_detection' = [pairs |-> << >>, raycasts_pairs |-> << >>]
    /\ penetration_constraints' = << >>
    /\ substep' = 0
    /\ iteration' = 0
    /\ UNCHANGED <<tables, gyrii>>

LoadData(w, overrides) == StepWorldLoad(w, overrides, MaxSteps)

SyncKinematic ==
    /\ pc = "sync"
    /\ entities' = SyncKinematicBodies(kinematic_entities, entities)
    /\ pc' = "broad"
    /\ UNCHANGED <<tables, world, kinematic_entities, triggers, raycasts, collision_detection,
                   penetration_constraints, substep, iteration, snapshot, steps, first_run,
                   gyrii>>

\* CollisionDetection::new and broad_phase; the order of the sequence pairs is the
\* order in which the loops of this step iterate the HashSet
BroadPhase ==
    /\ pc = "broad"
    /\ LET collidables == CollectCollidables(entities, triggers, PredictionDistance(world))
           qbvh == QbvhRebuild(collidables, world.qvbh_dilation_factor)
       IN  \E report \in ReportOrders :
           \E order \in Orders(RunBroadPhasePairs(qbvh, report)) :
               collision_detection' =
                   [pairs |-> order,
                    raycasts_pairs |-> RunBroadPhaseRaycastPairs(qbvh, raycasts)]
    /\ substep' = 0
    /\ pc' = IF 0 < world.sub_step THEN "narrow" ELSE "triggers"
    /\ UNCHANGED <<tables, world, kinematic_entities, entities, triggers, raycasts,
                   penetration_constraints, iteration, snapshot, steps, first_run, gyrii>>

NarrowPhase ==
    /\ pc = "narrow"
    /\ OnAxis(collision_detection.pairs, entities)
    /\ IF NarrowPhaseConstraintsOk(collision_detection.pairs, entities)
       THEN /\ penetration_constraints' =
                   NarrowPhaseConstraints(world, collision_detection.pairs, entities)
            /\ pc' = "integrate"
       ELSE /\ penetration_constraints' = << >>
            /\ pc' = "panicked"
    /\ UNCHANGED <<tables, world, kinematic_entities, entities, triggers, raycasts,
                   collision_detection, substep, iteration, snapshot, steps, first_run, gyrii>>

Integrate ==
    /\ pc = "integrate"
    /\ entities' = IntegrateBodies(entities, world, Dt(world))
    /\ iteration' = 0
    /\ pc' = IF 0 < world.position_iterations THEN "solve" ELSE "recompute"
    /\ UNCHANGED <<tables, world, kinematic_entities, triggers, raycasts, collision_detection,
                   penetration_constraints, substep, snapshot, steps, first_run, gyrii>>

\* variant: one pass of the constraints in each substep
SolveOnePass ==
    /\ pc = "solve"
    /\ SolveConstraintsFinite(penetration_constraints, entities, Dt(world))
    /\ LET solved == SolveConstraints(penetration_constraints, entities, Dt(world))
       IN  /\ penetration_constraints' = solved[1]
           /\ entities' = solved[2]
    /\ iteration' = iteration + 1
    /\ pc' = "recompute"
    /\ UNCHANGED <<tables, world, kinematic_entities, triggers, raycasts, collision_detection,
                   substep, snapshot, steps, first_run, gyrii>>

\* one sweep of solve_constraints; a sweep that divides by zero leaves a Lagrange
\* multiplier that is infinite or NaN, and the values of the step are not
\* followed from there
Solve ==
    /\ pc = "solve"
    /\ IF SolveConstraintsFinite(penetration_constraints, entities, Dt(world))
       THEN /\ LET solved == SolveConstraints(penetration_constraints, entities, Dt(world))
               IN  /\ penetration_constraints' = solved[1]
                   /\ entities' = solved[2]
            /\ iteration' = iteration + 1
            /\ pc' = IF iteration + 1 < world.position_iterations THEN "solve" ELSE "recompute"
       ELSE /\ UNCHANGED <<penetration_constraints, entities, iteration>>
            /\ pc' = "nonfinite"
    /\ UNCHANGED <<tables, world, kinematic_entities, triggers, raycasts, collision_detection,
                   substep, snapshot, steps, first_run, gyrii>>

Recompute ==
    /\ pc = "recompute"
    /\ entities' = RecomputeVelocities(entities, Dt(world))
    /\ pc' = "velocities"
    /\ UNCHANGED <<tables, world, kinematic_entities, triggers, raycasts, collision_detection,
                   penetration_constraints, substep, iteration, snapshot, steps, first_run,
                   gyrii>>

Velocities ==
    /\ pc = "velocities"
    /\ entities' = SolveVelocities(world, penetration_constraints, entities, Dt(world))
    /\ substep' = substep + 1
    /\ pc' = IF substep + 1 < world.sub_step THEN "narrow" ELSE "triggers"
    /\ UNCHANGED <<tables, world, kinematic_entities, triggers, raycasts, collision_detection,
                   penetration_constraints, iteration, snapshot, steps, first_run, gyrii>>

\* narrow_phase_triggers, every trigger.update(ctx) included
Triggers ==
    /\ pc = "triggers"
    /\ IF NarrowPhaseTriggersOk(collision_detection.pairs, entities, triggers)
       THEN /\ triggers' = NarrowPhaseTriggers(collision_detection.pairs, entities, triggers)
            /\ \E rows \in Choices([n \in 1..Len(triggers) |-> TriggerDataRows(triggers'[n])]) :
                   physics_triggers' = TableUpdateAll(physics_triggers, rows)
            /\ pc' = "raycast"
       ELSE /\ UNCHANGED <<triggers, physics_triggers>>
            /\ pc' = "panicked"
    /\ UNCHANGED <<physics_world, physics_colliders, physics_rigid_body_properties,
                   physics_rigid_bodies, physics_raycasts, world, kinematic_entities,
                   entities, raycasts, collision_detection, penetration_constraints,
                   substep, iteration, snapshot, steps, first_run, gyrii>>

\* narrow_phase_raycast, every raycast.update(ctx) included
Raycasts ==
    /\ pc = "raycast"
    /\ \E rays \in NarrowPhaseRaycast(collision_detection.raycasts_pairs, entities, raycasts) :
           /\ raycasts' = rays
           /\ physics_raycasts' =
                  TableUpdateAll(physics_raycasts,
                                 [n \in 1..Len(rays) |-> rays[n]])
    /\ pc' = "update"
    /\ UNCHANGED <<physics_world, physics_colliders, physics_rigid_body_properties,
                   physics_rigid_bodies, physics_triggers, world, kinematic_entities,
                   entities, triggers, collision_detection, penetration_constraints,
                   substep, iteration, snapshot, steps, first_run, gyrii>>

\* the rows that the loop of entity.update(ctx) hands to the store
UpdatedBodies(bodies) == [n \in 1..Len(bodies) |-> bodies[n].rb]

\* the loop of entity.update(ctx)
UpdateBodies ==
    /\ pc = "update"
    /\ physics_rigid_bodies' = TableUpdateAll(physics_rigid_bodies, UpdatedBodies(entities))
    /\ pc' = "done"
    /\ UNCHANGED <<physics_world, physics_colliders, physics_rigid_body_properties,
                   physics_triggers, physics_raycasts, locals, snapshot, steps, first_run,
                   gyrii>>

\* every reference of a body or trigger to a collider or to properties resolves
References ==
    \A w \in physics_world :
        /\ TriggerDataCollectOk(w.id, ColliderAll(w.id))
        /\ RigidBodyDataCollectOk(w.id, ColliderAll(w.id))

\* Collider::delete_by_id by the application, on a collider of the world whose
\* step has just ended
ColliderDelete(id) ==
    /\ pc = "done"
    /\ Len(steps) < MaxSteps
    /\ References
    /\ \E c \in ColliderAll(world.id) : c.id = id
    /\ physics_colliders' = {c \in physics_colliders : c.id # id}
    /\ pc' = "idle"
    /\ UNCHANGED <<physics_world, physics_rigid_body_properties, physics_rigid_bodies,
                   physics_triggers, physics_raycasts, locals, snapshot, steps, first_run,
                   gyrii>>

\* RigidBodyProperties::delte_by_id by the application, on properties of the world
\* whose step has just ended
RigidBodyPropertiesDelete(id) ==
    /\ pc = "done"
    /\ Len(steps) < MaxSteps
    /\ References
    /\ \E p \in RigidBodyPropertiesAll(world.id) : p.id = id
    /\ physics_rigid_body_properties' = {p \in physics_rigid_body_properties : p.id # id}
    /\ pc' = "idle"
    /\ UNCHANGED <<physics_world, physics_colliders, physics_rigid_bodies,
                   physics_triggers, physics_raycasts, locals, snapshot, steps, first_run,
                   gyrii>>

Next ==
    \/ \E w \in physics_world, overrides \in KinematicInputs : LoadData(w, overrides)
    \/ SyncKinematic
    \/ BroadPhase
    \/ NarrowPhase
    \/ Integrate
    \/ Solve
    \/ Recompute
    \/ Velocities
    \/ Triggers
    \/ Raycasts
    \/ UpdateBodies
    \/ \E c \in physics_colliders : ColliderDelete(c.id)
    \/ \E p \in physics_rigid_body_properties : RigidBodyPropertiesDelete(p.id)

Spec == Init /\ [][Next]_vars

\* The step that has ended is run once more on the snapshot it began with, with
\* the same configuration and overrides
Rerun ==
    /\ pc = "done"
    /\ ~first_run.set
    /\ first_run' = [set |-> TRUE, tables |-> tables]
    /\ physics_world' = snapshot[1]
    /\ physics_colliders' = snapshot[2]
    /\ physics_rigid_body_properties' = snapshot[3]
    /\ physics_rigid_bodies' = snapshot[4]
    /\ physics_triggers' = snapshot[5]
    /\ physics_raycasts' = snapshot[6]
    /\ pc' = "rerun"
    /\ UNCHANGED <<locals, snapshot, steps, gyrii>>

NextRerun == Next \/ Rerun

\* the worlds with the most substeps and position iterations
InitRerun ==
    /\ Init
    /\ world.sub_step = MaxSubStep
    /\ world.position_iterations = MaxPositionIterations

SpecRerun == InitRerun /\ [][NextRerun]_vars

-----------------------------------------------------------------------------
(* solve_friction on a contact whose normal is across the axis *)

\* The axis of the model is here a tangent of the contact: a body lies on
\* another one, the normal of their contact has no component along the axis, and
\* the positions are what solve_contact left.
MaxSlide == 4

\* the slides are multiples of the sum of the inverse masses of the two bodies
Slides == {slide \in (-MaxSlide)..MaxSlide : slide % 2 = 0}

FrictionCoefficients == {0, 2, 4}

\* contact.dist of a penetrating contact
FrictionDepths == {-1, -2, -4}

FrictionBody(id, body_type, position, previous_position, coefficient) ==
    [RigidBodyDataNew(RigidBodyRow(id, 1, body_type, position, 0, 1, 1),
                      [RigidBodyPropertiesRow(1, 1)
                          EXCEPT !.friction_static_coefficient = coefficient],
                      Sphere(1, 1, 4))
        EXCEPT !.previous_position = previous_position]

\* the constraint that narrow_phase_constraints makes of the contact of a on b
FrictionContact(a, b, depth) ==
    PenetrationConstraintNew(a, b,
        [world_a |-> a.previous_position, world_b |-> b.previous_position,
         local_a |-> 0, local_b |-> 0, normal |-> 0, distance |-> depth], 0)

InitFriction ==
    \E slide \in Slides, body_type \in {"Static", "Dynamic"},
       mu_a, mu_b \in FrictionCoefficients, depth \in FrictionDepths :
        LET a == FrictionBody(1, "Dynamic", slide, 0, mu_a)
            b == FrictionBody(2, body_type, 0, 0, mu_b)
        IN  /\ entities = <<a, b>>
            /\ penetration_constraints = <<FrictionContact(a, b, depth)>>
            /\ pc = "friction"
            /\ world = PhysicsWorldRow(1, 1, 1, 0)
            /\ physics_world = {world}
            /\ physics_colliders = {}
            /\ physics_rigid_body_properties = {}
            /\ physics_rigid_bodies = {}
            /\ physics_triggers = {}
            /\ physics_raycasts = {}
            /\ kinematic_entities = << >>
            /\ triggers = << >>
            /\ raycasts = << >>
            /\ collision_detection = [pairs |-> << >>, raycasts_pairs |-> << >>]
            /\ substep = 0
            /\ iteration = 0
            /\ snapshot = <<physics_world, physics_colliders, physics_rigid_body_properties,
                            physics_rigid_bodies, physics_triggers, physics_raycasts>>
            /\ steps = << >>
            /\ first_run = NoRun
            /\ GyriiInit

\* solve_friction of the constraint on its two bodies
Friction ==
    /\ pc = "friction"
    /\ LET solved == SolveFriction(penetration_constraints[1], entities[1], entities[2],
                                   Dt(world))
       IN  /\ penetration_constraints' = <<solved[1]>>
           /\ entities' = <<solved[2], solved[3]>>
    /\ pc' = "recompute_after_friction"
    /\ UNCHANGED <<tables, world, kinematic_entities, triggers, raycasts, collision_detection,
                   substep, iteration, snapshot, steps, first_run, gyrii>>

SpecFriction == InitFriction /\ [][Friction]_vars

-----------------------------------------------------------------------------
(* A sphere dropped on a half-space, under the defaults of PhysicsWorld *)

\* The unit of time is the substep and the unit of length is what gravity adds
\* to a velocity in one substep, so that gravity is -1 and dt is 1: with
\* time_step 1/60 s and gravity 9.81 m/s^2 that unit of length is
\* 9.81 / (60 * DropSubStep)^2 m.
DropSubStep == 8

\* 1 m, the radius of the sphere
DropRadius == 23486

\* 1e-3 m
DropPrecision == 23

\* the number of steps after which the sphere is said to rest
DropSteps == 120

\* no step is begun once a body is farther than this from the origin
MaxCoordinate == 1000000

DropWorld ==
    [PhysicsWorldRow(1, DropSubStep, 1, 2 * DropPrecision)
        EXCEPT !.time_step = DropSubStep, !.gravity = -1, !.precision = DropPrecision]

\* a Dynamic sphere of radius 1 m and mass 1 with its centre 3 m above a Static
\* half-space with normal +1 at 0
SceneDrop ==
    [colliders |-> {Sphere(1, 1, DropRadius), Plane(2, 1, 1)},
     properties |-> {RigidBodyPropertiesRow(1, 1)},
     bodies |-> {RigidBodyRow(1, 1, "Dynamic", 3 * DropRadius, 0, 1, 1),
                 RigidBodyRow(2, 1, "Static", 0, 0, 2, 1)},
     triggers |-> {},
     raycasts |-> {}]

InitDrop ==
    /\ physics_world = {DropWorld}
    /\ physics_colliders = SceneDrop.colliders
    /\ physics_rigid_body_properties = SceneDrop.properties
    /\ physics_rigid_bodies = SceneDrop.bodies
    /\ physics_triggers = SceneDrop.triggers
    /\ physics_raycasts = SceneDrop.raycasts
    /\ pc = "idle"
    /\ world = DropWorld
    /\ kinematic_entities = << >>
    /\ entities = << >>
    /\ triggers = << >>
    /\ raycasts = << >>
    /\ collision_detection = [pairs |-> << >>, raycasts_pairs |-> << >>]
    /\ penetration_constraints = << >>
    /\ substep = 0
    /\ iteration = 0
    /\ snapshot = <<physics_world, physics_colliders, physics_rigid_body_properties,
                    physics_rigid_bodies, physics_triggers, physics_raycasts>>
    /\ steps = << >>
    /\ first_run = NoRun
    /\ GyriiInit

InRange == \A rb \in physics_rigid_bodies : Abs(rb.position) <= MaxCoordinate

\* the tick of the world, as long as the bodies are in range
DropTick ==
    /\ InRange
    /\ StepWorldLoad(DropWorld, << >>, DropSteps)

NextDrop ==
    \/ DropTick
    \/ SyncKinematic
    \/ BroadPhase
    \/ NarrowPhase
    \/ Integrate
    \/ Solve
    \/ Recompute
    \/ Velocities
    \/ Triggers
    \/ Raycasts
    \/ UpdateBodies

SpecDrop == InitDrop /\ [][NextDrop]_vars

-----------------------------------------------------------------------------
(* A body that turns freely about the x axis: the angular part of          *)
(* integrate_bodies and recompute_velocities in fixed point, SpinUnit      *)
(* units to one                                                            *)

SpinUnit == 10000

\* 1 / time_step; with sub_step 1 the substep lasts 1 / SpinRate
SpinRate == 60

MaxSpinSubSteps == 2

MaxSpin == 4

\* angular velocities about x, in radians per second
Spins == {omega * SpinUnit : omega \in ((-MaxSpin)..MaxSpin) \ {0}}

\* unit quaternions about x
SpinRotations ==
    {Quat(0, 0, 0, SpinUnit), Quat(6000, 0, 0, 8000), Quat(8000, 0, 0, 6000),
     Quat(SpinUnit, 0, 0, 0), Quat(-6000, 0, 0, 8000), Quat(-8000, 0, 0, 6000)}

ISqrt(n) == CHOOSE r \in 0..(2 * SpinUnit) : r * r <= n /\ (r + 1) * (r + 1) > n

SpinQuatNormalize(q) ==
    LET len == ISqrt(q.x * q.x + q.y * q.y + q.z * q.z + q.w * q.w) IN
    IF len = 0 THEN QuatZERO
    ELSE Quat(Div(q.x * SpinUnit, len), Div(q.y * SpinUnit, len),
              Div(q.z * SpinUnit, len), Div(q.w * SpinUnit, len))

SpinQuatMul(p, q) ==
    LET r == QuatMul(p, q)
    IN  Quat(Div(r.x, SpinUnit), Div(r.y, SpinUnit), Div(r.z, SpinUnit), Div(r.w, SpinUnit))

\* 0.5 * delta_time * q
SpinQuatHalfScale(q) ==
    Quat(Div(q.x, 2 * SpinRate), Div(q.y, 2 * SpinRate),
         Div(q.z, 2 * SpinRate), Div(q.w, 2 * SpinRate))

\* the angular integration of a Dynamic body with no torque; the inertia of a
\* sphere is isotropic, so the gyroscopic torque omega x (I omega) is zero
SpinIntegrateBody(body) ==
    LET b4 == [body EXCEPT !.previous_rotation = body.rb.rotation]
        b5 == SetAngularVelocity(b4, b4.rb.angular_velocity)
        dq == SpinQuatHalfScale(SpinQuatMul(b5.rb.rotation,
                                            QuatFromXyz(b5.rb.angular_velocity, 0)))
        b6 == [b5 EXCEPT !.rb.rotation = SpinQuatNormalize(QuatAdd(b5.rb.rotation, dq)),
                         !.is_dirty = TRUE]
    IN  SetForce(SetTorque(b6, 0), 0)

\* the angular part of recompute_velocities for a Dynamic body
SpinRecomputeBody(body) ==
    LET b3 == [body EXCEPT !.pre_solve_angular_velocity = body.rb.angular_velocity]
    IN  SetAngularVelocity(b3,
            QuatAsRadians(SpinQuatMul(b3.rb.rotation, QuatInverse(b3.previous_rotation)))
                * SpinRate)

InitSpin ==
    \E omega \in Spins, rotation \in SpinRotations :
        /\ entities = <<RigidBodyDataNew(
                           [RigidBodyRow(1, 1, "Dynamic", 0, 0, 1, 1)
                               EXCEPT !.rotation = rotation, !.angular_velocity = omega],
                           RigidBodyPropertiesRow(1, 1), Sphere(1, 1, 4))>>
        /\ penetration_constraints = << >>
        /\ pc = "spin_integrate"
        /\ world = PhysicsWorldRow(1, 1, 1, 0)
        /\ physics_world = {world}
        /\ physics_colliders = {}
        /\ physics_rigid_body_properties = {}
        /\ physics_rigid_bodies = {}
        /\ physics_triggers = {}
        /\ physics_raycasts = {}
        /\ kinematic_entities = << >>
        /\ triggers = << >>
        /\ raycasts = << >>
        /\ collision_detection = [pairs |-> << >>, raycasts_pairs |-> << >>]
        /\ substep = 0
        /\ iteration = 0
        /\ snapshot = <<physics_world, physics_colliders, physics_rigid_body_properties,
                        physics_rigid_bodies, physics_triggers, physics_raycasts>>
        /\ steps = << >>
        /\ first_run = NoRun
        /\ GyriiInit

SpinIntegrate ==
    /\ pc = "spin_integrate"
    /\ substep < MaxSpinSubSteps
    /\ entities' = <<SpinIntegrateBody(entities[1])>>
    /\ pc' = "spin_recompute"
    /\ UNCHANGED <<tables, world, kinematic_entities, triggers, raycasts, collision_detection,
                   penetration_constraints, substep, iteration, snapshot, steps, first_run,
                   gyrii>>

SpinRecompute ==
    /\ pc = "spin_recompute"
    /\ entities' = <<SpinRecomputeBody(entities[1])>>
    /\ substep' = substep + 1
    /\ pc' = "spin_integrate"
    /\ UNCHANGED <<tables, world, kinematic_entities, triggers, raycasts, collision_detection,
                   penetration_constraints, iteration, snapshot, steps, first_run, gyrii>>

NextSpin == SpinIntegrate \/ SpinRecompute

SpecSpin == InitSpin /\ [][NextSpin]_vars

-----------------------------------------------------------------------------
(* Bodies that hold a force and a torque when the step begins *)

MaxForce == 2

Forces == (-MaxForce)..MaxForce

\* a Dynamic, a Static and a Kinematic body far from each other; the rows hold
\* forces and torques, as rows written by an application can
SceneForce(force, torque) ==
    [colliders |-> {Sphere(1, 1, 1)},
     properties |-> {RigidBodyPropertiesRow(1, 1)},
     bodies |-> {[RigidBodyRow(1, 1, "Dynamic", 0, 1, 1, 1)
                     EXCEPT !.force = force, !.torque = torque],
                 [RigidBodyRow(2, 1, "Static", 1000, 0, 1, 1)
                     EXCEPT !.force = 1, !.torque = torque],
                 [RigidBodyRow(3, 1, "Kinematic", -1000, 0, 1, 1)
                     EXCEPT !.force = force, !.torque = -1]},
     triggers |-> {},
     raycasts |-> {}]

InitForce ==
    \E force \in Forces, torque \in Forces, sub_step \in 0..MaxSubStep,
       position_iterations \in 1..MaxPositionIterations :
        /\ physics_world = {PhysicsWorldRow(1, sub_step, position_iterations, 0)}
        /\ physics_colliders = SceneForce(force, torque).colliders
        /\ physics_rigid_body_properties = SceneForce(force, torque).properties
        /\ physics_rigid_bodies = SceneForce(force, torque).bodies
        /\ physics_triggers = SceneForce(force, torque).triggers
        /\ physics_raycasts = SceneForce(force, torque).raycasts
        /\ pc = "idle"
        /\ world = PhysicsWorldRow(1, sub_step, position_iterations, 0)
        /\ kinematic_entities = << >>
        /\ entities = << >>
        /\ triggers = << >>
        /\ raycasts = << >>
        /\ collision_detection = [pairs |-> << >>, raycasts_pairs |-> << >>]
        /\ penetration_constraints = << >>
        /\ substep = 0
        /\ iteration = 0
        /\ snapshot = <<physics_world, physics_colliders, physics_rigid_body_properties,
                        physics_rigid_bodies, physics_triggers, physics_raycasts>>
        /\ steps = << >>
        /\ first_run = NoRun
        /\ GyriiInit

ForceTick == \E w \in physics_world : StepWorldLoad(w, << >>, MaxSteps)

NextForce ==
    \/ ForceTick
    \/ SyncKinematic
    \/ BroadPhase
    \/ NarrowPhase
    \/ Integrate
    \/ Solve
    \/ Recompute
    \/ Velocities
    \/ Triggers
    \/ Raycasts
    \/ UpdateBodies

SpecForce == InitForce /\ [][NextForce]_vars

-----------------------------------------------------------------------------
(* solve_velocities on one contact along the axis *)

MaxSpeed == 16

\* normal velocities, multiples of the sum of the inverse masses of two bodies
Speeds == {speed \in (-MaxSpeed)..MaxSpeed : speed % 2 = 0}

RestitutionCoefficients == {0, 2}

Gravities == {0, -1}

RestitutionBody(id, body_type, position, linear_velocity, pre_solve_linear_velocity,
                coefficient) ==
    [RigidBodyDataNew(RigidBodyRow(id, 1, body_type, position, linear_velocity, 1, 1),
                      [RigidBodyPropertiesRow(1, 1)
                          EXCEPT !.restitution_coefficient = coefficient],
                      Sphere(1, 1, 4))
        EXCEPT !.pre_solve_linear_velocity = pre_solve_linear_velocity]

\* the constraint that narrow_phase_constraints makes of sphere a at 0 and
\* sphere b at 6, both of radius 4
RestitutionContact(a, b) ==
    PenetrationConstraintNew(a, b,
        [world_a |-> 4, world_b |-> 2, local_a |-> 4, local_b |-> -4, normal |-> 1,
         distance |-> -2], 0)

\* recompute_velocities has left a body that is not Dynamic at rest
InitRestitution ==
    \E speed \in Speeds, bounce \in {-1, 1}, body_type \in {"Static", "Dynamic"},
       e_a, e_b \in RestitutionCoefficients, gravity \in Gravities :
        LET a == RestitutionBody(1, "Dynamic", 0, speed, bounce * speed, e_a)
            b == RestitutionBody(2, body_type, 6, 0, 0, e_b)
        IN  /\ entities = <<a, b>>
            /\ penetration_constraints = <<RestitutionContact(a, b)>>
            /\ pc = "restitution"
            /\ world = [PhysicsWorldRow(1, 1, 1, 0) EXCEPT !.gravity = gravity]
            /\ physics_world = {world}
            /\ physics_colliders = {}
            /\ physics_rigid_body_properties = {}
            /\ physics_rigid_bodies = {}
            /\ physics_triggers = {}
            /\ physics_raycasts = {}
            /\ kinematic_entities = << >>
            /\ triggers = << >>
            /\ raycasts = << >>
            /\ collision_detection = [pairs |-> << >>, raycasts_pairs |-> << >>]
            /\ substep = 0
            /\ iteration = 0
            /\ snapshot = <<physics_world, physics_colliders, physics_rigid_body_properties,
                            physics_rigid_bodies, physics_triggers, physics_raycasts>>
            /\ steps = << >>
            /\ first_run = NoRun
            /\ GyriiInit

\* solve_velocities of the constraint on its two bodies
Restitution ==
    /\ pc = "restitution"
    /\ entities' = SolveVelocity(world, penetration_constraints[1], entities, Dt(world))
    /\ pc' = "after_restitution"
    /\ UNCHANGED <<tables, world, kinematic_entities, triggers, raycasts, collision_detection,
                   penetration_constraints, substep, iteration, snapshot, steps, first_run,
                   gyrii>>

SpecRestitution == InitRestitution /\ [][Restitution]_vars

-----------------------------------------------------------------------------
(* The lobby reducers of gyrii and the physics tick chain *)

\* The tables keep the columns the reducers below read: a lobby is
\* [id, host_id, physics_world_id, max_players, game_state, game_mode], a
\* lobby_player [id, lobby_id, player_identity, team, is_ready], a player
\* [identity, lobby_id, rigid_body_id], a physics_tick_timer
\* [scheduled_id, scheduled_at, world_id], a rapier_rigid_body [id, world_id];
\* rapier_physics_world holds the ids of its rows. A reducer that returns Err or
\* panics is rolled back: it leaves every table as it found it.

MaxIdentities == 3
MaxLobbies == 2
MaxMemberships == 3
MaxTimers == 2
MaxTicks == 1
TickInterval == 16667
MinPlayers == 2
MaxPlayers == 16

Identities == 1..MaxIdentities
GameModes == {"FreeForAll", "TeamDeathmatch"}
MaxPlayersInputs == {1}

Clamp(value, low, high) == Max(low, Min(value, high))

Members(lobby_id) == {lp \in lobby_player : lp.lobby_id = lobby_id}

InLobby(identity) == \E lp \in lobby_player : lp.player_identity = identity

\* a reducer call that returns Err, or panics: the tables stay as they were
Rejected(result) ==
    /\ result # "Ok"
    /\ UNCHANGED <<lobby, lobby_player, player, physics_tick_timer, rapier_physics_world,
                   rapier_rigid_body, auto_inc, timestamp>>

\* create_player_in_lobby: the Kinematic rigid body of the player and the player
\* row (insert panics on a second row of the same identity: the reducers ask
\* PlayerInsertPanics before they call it)
PlayerInsertPanics(identity) == \E p \in player : p.identity = identity

CreatePlayerInLobby(identity, lobby_id, world_id) ==
    LET rigid_body_id == auto_inc.rapier_rigid_body + 1
    IN  /\ rapier_rigid_body' = rapier_rigid_body \cup
                                    {[id |-> rigid_body_id, world_id |-> world_id]}
        /\ player' = player \cup {[identity |-> identity, lobby_id |-> lobby_id,
                                   rigid_body_id |-> rigid_body_id]}

\* remove_player: the tables player and rapier_rigid_body after it
RemovePlayerBodies(identity) ==
    {rb \in rapier_rigid_body :
        ~ \E p \in player : p.identity = identity /\ p.rigid_body_id > 0
                                /\ p.rigid_body_id = rb.id}

RemovePlayerRows(identity) == {p \in player : p.identity # identity}

\* schedule_physics_tick
SchedulePhysicsTick(timers, world_id) ==
    timers \cup {[scheduled_id |-> auto_inc.physics_tick_timer + 1,
                  scheduled_at |-> timestamp + TickInterval,
                  world_id |-> world_id]}

CreateLobbyResult(identity) ==
    IF InLobby(identity) THEN "Already in a lobby"
    ELSE IF PlayerInsertPanics(identity) THEN "panic"
    ELSE "Ok"

CreateLobby(identity, game_mode, max_players) ==
    LET result == CreateLobbyResult(identity)
        world_id == auto_inc.rapier_physics_world + 1
        lobby_id == auto_inc.lobby + 1
    IN  IF result = "Ok"
        THEN /\ auto_inc.lobby < MaxLobbies
             /\ auto_inc.lobby_player < MaxMemberships
             /\ rapier_physics_world' = rapier_physics_world \cup {world_id}
             /\ lobby' = lobby \cup
                    {[id |-> lobby_id, host_id |-> identity, physics_world_id |-> world_id,
                      max_players |-> Clamp(max_players, MinPlayers, MaxPlayers),
                      game_state |-> "Waiting", game_mode |-> game_mode]}
             /\ lobby_player' = lobby_player \cup
                    {[id |-> auto_inc.lobby_player + 1, lobby_id |-> lobby_id,
                      player_identity |-> identity, team |-> 0, is_ready |-> FALSE]}
             /\ CreatePlayerInLobby(identity, lobby_id, world_id)
             /\ auto_inc' = [auto_inc EXCEPT !.rapier_physics_world = @ + 1,
                                             !.lobby = @ + 1,
                                             !.lobby_player = @ + 1,
                                             !.rapier_rigid_body = @ + 1]
             /\ UNCHANGED <<physics_tick_timer, timestamp>>
        ELSE Rejected(result)

\* variant: join_lobby without its first check
JoinLobbyResultNoMembershipCheck(identity, lobby_id) ==
    IF ~ \E l \in lobby : l.id = lobby_id THEN "Lobby not found"
    ELSE LET l == CHOOSE l \in lobby : l.id = lobby_id
         IN  IF Cardinality(Members(lobby_id)) >= l.max_players THEN "Lobby is full"
             ELSE IF l.game_state # "Waiting" THEN "Game already in progress"
             ELSE IF PlayerInsertPanics(identity) THEN "panic"
             ELSE "Ok"

JoinLobbyResult(identity, lobby_id) ==
    IF InLobby(identity) THEN "Already in a lobby"
    ELSE IF ~ \E l \in lobby : l.id = lobby_id THEN "Lobby not found"
    ELSE LET l == CHOOSE l \in lobby : l.id = lobby_id
         IN  IF Cardinality(Members(lobby_id)) >= l.max_players THEN "Lobby is full"
             ELSE IF l.game_state # "Waiting" THEN "Game already in progress"
             ELSE IF PlayerInsertPanics(identity) THEN "panic"
             ELSE "Ok"

\* the team join_lobby gives
JoinTeam(l) ==
    LET player_count == Cardinality(Members(l.id))
        team0_count == Cardinality({lp \in Members(l.id) : lp.team = 0})
        team1_count == Cardinality({lp \in Members(l.id) : lp.team = 1})
    IN  IF l.game_mode = "FreeForAll" THEN player_count
        ELSE IF team0_count <= team1_count THEN 0 ELSE 1

JoinLobby(identity, lobby_id) ==
    LET result == JoinLobbyResult(identity, lobby_id)
    IN  IF result = "Ok"
        THEN LET l == CHOOSE l \in lobby : l.id = lobby_id
             IN  /\ auto_inc.lobby_player < MaxMemberships
                 /\ lobby_player' = lobby_player \cup
                        {[id |-> auto_inc.lobby_player + 1, lobby_id |-> lobby_id,
                          player_identity |-> identity, team |-> JoinTeam(l),
                          is_ready |-> FALSE]}
                 /\ CreatePlayerInLobby(identity, lobby_id, l.physics_world_id)
                 /\ auto_inc' = [auto_inc EXCEPT !.lobby_player = @ + 1,
                                                 !.rapier_rigid_body = @ + 1]
                 /\ UNCHANGED <<lobby, physics_tick_timer, rapier_physics_world, timestamp>>
        ELSE Rejected(result)

\* the lobby table once its lobby lobby_id has no member left, and the worlds
LobbyWithout(lobby_id) == {l \in lobby : l.id # lobby_id}

WorldsWithout(lobby_id) ==
    {w \in rapier_physics_world :
        ~ \E l \in lobby : l.id = lobby_id /\ l.physics_world_id = w}

LeaveLobby(identity) ==
    IF ~ InLobby(identity)
    THEN Rejected("Not in a lobby")
    ELSE \E lp \in {row \in lobby_player : row.player_identity = identity} :
            LET lobby_id == lp.lobby_id
                rows == lobby_player \ {lp}
                remaining_players == {p \in rows : p.lobby_id = lobby_id}
            IN  /\ lobby_player' = rows
                /\ player' = RemovePlayerRows(identity)
                /\ rapier_rigid_body' = RemovePlayerBodies(identity)
                /\ IF remaining_players = {}
                   THEN /\ rapier_physics_world' = WorldsWithout(lobby_id)
                        /\ lobby' = LobbyWithout(lobby_id)
                   ELSE /\ rapier_physics_world' = rapier_physics_world
                        \* remaining_players[0]: the first row the table gives
                        /\ \E first \in remaining_players :
                            lobby' = {IF l.id = lobby_id /\ l.host_id = identity
                                      THEN [l EXCEPT !.host_id = first.player_identity]
                                      ELSE l : l \in lobby}
                /\ UNCHANGED <<physics_tick_timer, auto_inc, timestamp>>

SetReady(identity, ready) ==
    IF ~ InLobby(identity)
    THEN Rejected("Not in a lobby")
    ELSE \E lp \in {row \in lobby_player : row.player_identity = identity} :
            /\ lobby_player' = (lobby_player \ {lp}) \cup {[lp EXCEPT !.is_ready = ready]}
            /\ UNCHANGED <<lobby, player, physics_tick_timer, rapier_physics_world,
                           rapier_rigid_body, auto_inc, timestamp>>

StartGameResult(identity, lp) ==
    IF ~ \E l \in lobby : l.id = lp.lobby_id THEN "Lobby not found"
    ELSE LET l == CHOOSE l \in lobby : l.id = lp.lobby_id
         IN  IF l.host_id # identity THEN "Only host can start the game"
             ELSE IF ~ \A p \in Members(lp.lobby_id) :
                          p.is_ready \/ p.player_identity = identity
                  THEN "Not all players are ready"
             ELSE "Ok"

StartGame(identity) ==
    IF ~ InLobby(identity)
    THEN Rejected("Not in a lobby")
    ELSE \E lp \in {row \in lobby_player : row.player_identity = identity} :
            LET result == StartGameResult(identity, lp)
            IN  IF result = "Ok"
                THEN LET l == CHOOSE l \in lobby : l.id = lp.lobby_id
                     IN  /\ auto_inc.physics_tick_timer < MaxTimers
                         /\ lobby' = (lobby \ {l}) \cup
                                        {[l EXCEPT !.game_state = "InProgress"]}
                         /\ physics_tick_timer' =
                                SchedulePhysicsTick(physics_tick_timer, l.physics_world_id)
                         /\ auto_inc' = [auto_inc EXCEPT !.physics_tick_timer = @ + 1]
                         /\ UNCHANGED <<lobby_player, player, rapier_physics_world,
                                        rapier_rigid_body, timestamp>>
                ELSE Rejected(result)

EndGame(lobby_id) ==
    IF ~ \E l \in lobby : l.id = lobby_id
    THEN Rejected("Lobby not found")
    ELSE /\ lobby' = {IF l.id = lobby_id THEN [l EXCEPT !.game_state = "Ended"] ELSE l :
                        l \in lobby}
         /\ UNCHANGED <<lobby_player, player, physics_tick_timer, rapier_physics_world,
                        rapier_rigid_body, auto_inc, timestamp>>

ClientDisconnected(identity) ==
    IF ~ \E p \in player : p.identity = identity
    THEN UNCHANGED <<lobby, lobby_player, player, physics_tick_timer, rapier_physics_world,
                     rapier_rigid_body, auto_inc, timestamp>>
    ELSE LET lobby_id == (CHOOSE p \in player : p.identity = identity).lobby_id
             \* find: the first row of the identity the table gives
             found == {row \in lobby_player : row.player_identity = identity}
         IN  \E lp \in IF found = {} THEN {0} ELSE found :
                LET rows == lobby_player \ {lp}
                    remaining == Cardinality({row \in rows : row.lobby_id = lobby_id})
                IN  /\ player' = RemovePlayerRows(identity)
                    /\ rapier_rigid_body' = RemovePlayerBodies(identity)
                    /\ lobby_player' = rows
                    /\ IF remaining = 0
                       THEN /\ rapier_physics_world' = WorldsWithout(lobby_id)
                            /\ lobby' = LobbyWithout(lobby_id)
                       ELSE UNCHANGED <<rapier_physics_world, lobby>>
                    /\ UNCHANGED <<physics_tick_timer, auto_inc, timestamp>>

\* The scheduler calls physics_tick with a timer row whose time has come and
\* deletes the row. The step of the world and process_grenades,
\* process_damage_zones, process_respawns write no column kept here.
PhysicsTick(timer) ==
    /\ timer.scheduled_at <= timestamp
    /\ IF timer.world_id \in rapier_physics_world
       THEN /\ auto_inc.physics_tick_timer < MaxTimers
            /\ physics_tick_timer' =
                    SchedulePhysicsTick(physics_tick_timer \ {timer}, timer.world_id)
            /\ auto_inc' = [auto_inc EXCEPT !.physics_tick_timer = @ + 1]
       ELSE /\ physics_tick_timer' = physics_tick_timer \ {timer}
            /\ auto_inc' = auto_inc
    /\ UNCHANGED <<lobby, lobby_player, player, rapier_physics_world, rapier_rigid_body,
                   timestamp>>

\* time goes on to the next tick once the timers that are due have run
AdvanceTime ==
    /\ timestamp < MaxTicks * TickInterval
    /\ \A timer \in physics_tick_timer : timer.scheduled_at > timestamp
    /\ timestamp' = timestamp + TickInterval
    /\ UNCHANGED <<lobby, lobby_player, player, physics_tick_timer, rapier_physics_world,
                   rapier_rigid_body, auto_inc>>

InitLobby ==
    /\ GyriiInit
    /\ physics_world = {}
    /\ physics_colliders = {}
    /\ physics_rigid_body_properties = {}
    /\ physics_rigid_bodies = {}
    /\ physics_triggers = {}
    /\ physics_raycasts = {}
    /\ pc = "lobby"
    /\ world = PhysicsWorldRow(1, 0, 1, 0)
    /\ kinematic_entities = << >>
    /\ entities = << >>
    /\ triggers = << >>
    /\ raycasts = << >>
    /\ collision_detection = [pairs |-> << >>, raycasts_pairs |-> << >>]
    /\ penetration_constraints = << >>
    /\ substep = 0
    /\ iteration = 0
    /\ snapshot = << >>
    /\ steps = << >>
    /\ first_run = NoRun

NextLobby ==
    \/ \E identity \in Identities, game_mode \in GameModes, max_players \in MaxPlayersInputs :
        CreateLobby(identity, game_mode, max_players) /\ UNCHANGED physics
    \/ \E identity \in Identities, lobby_id \in 1..MaxLobbies :
        JoinLobby(identity, lobby_id) /\ UNCHANGED physics
    \/ \E identity \in Identities : LeaveLobby(identity) /\ UNCHANGED physics
    \/ \E identity \in Identities, ready \in BOOLEAN :
        SetReady(identity, ready) /\ UNCHANGED physics
    \/ \E identity \in Identities : StartGame(identity) /\ UNCHANGED physics
    \/ \E lobby_id \in 1..MaxLobbies : EndGame(lobby_id) /\ UNCHANGED physics
    \/ \E identity \in Identities : ClientDisconnected(identity) /\ UNCHANGED physics
    \/ \E timer \in physics_tick_timer : PhysicsTick(timer) /\ UNCHANGED physics
    \/ AdvanceTime /\ UNCHANGED physics

SpecLobby == InitLobby /\ [][NextLobby]_vars

-----------------------------------------------------------------------------
(* Properties *)

\* the caller supplied an override for this body id
Overridden(id) == \E n \in 1..Len(kinematic_entities) : kinematic_entities[n].id = id

\* the override supplied last for this body id
LastOverride(id) ==
    kinematic_entities[CHOOSE n \in 1..Len(kinematic_entities) :
                           /\ kinematic_entities[n].id = id
                           /\ \A m \in (n + 1)..Len(kinematic_entities) :
                                  kinematic_entities[m].id # id]

\* the row a body had when the step began
BodyBefore(id) == CHOOSE rb \in snapshot[4] : rb.id = id

\* the constraints of the last substep that moved a body and have this body at an end
SolvedContacts(id) ==
    {n \in 1..Len(penetration_constraints) :
        /\ penetration_constraints[n].normal_lagrange # 0
        /\ id \in {penetration_constraints[n].a, penetration_constraints[n].b}}

\* C1: once the overrides are applied, and in the rows stored when the step has
\* ended, every Kinematic body for which the caller supplied an override is at the
\* position of that override (the last one supplied for it): integration, position
\* corrections and the velocity solve never move it, in contact with Dynamic bodies too.
C1_KinematicAtOverride ==
    /\ ((InStep /\ pc # "sync") \/ pc = "done") =>
           \A n \in 1..Len(entities) :
               (entities[n].rb.body_type = "Kinematic" /\ Overridden(entities[n].id)) =>
                   entities[n].rb.position = LastOverride(entities[n].id).position
    /\ pc = "done" =>
           \A rb \in physics_rigid_bodies :
               (rb.world_id = world.id /\ rb.body_type = "Kinematic" /\ Overridden(rb.id)) =>
                   rb.position = LastOverride(rb.id).position

\* a step has ended in which an override moved a Kinematic body into a penetrating
\* contact with a Dynamic body, and the contact was solved
C1_Witness ==
    /\ pc = "done"
    /\ \E rb \in physics_rigid_bodies :
           /\ rb.world_id = world.id
           /\ rb.body_type = "Kinematic"
           /\ Overridden(rb.id)
           /\ BodyBefore(rb.id).position # rb.position
           /\ \E n \in SolvedContacts(rb.id) :
                  \E other \in physics_rigid_bodies :
                      /\ other.id \in {penetration_constraints[n].a, penetration_constraints[n].b}
                      /\ other.body_type = "Dynamic"

\* the hits parry finds among the broad-phase candidates of the n-th raycast at the
\* poses the step ended with; none when the raycast has no candidate
StepHits(n) ==
    IF (n - 1) \in DOMAIN collision_detection.raycasts_pairs
    THEN RayCastHits(raycasts[n], collision_detection.raycasts_pairs[n - 1], entities)
    ELSE {}

RayCastBefore(id) == CHOOSE r \in snapshot[6] : r.id = id

RayCastStored(id) == CHOOSE r \in physics_raycasts : r.id = id

TriggerBefore(id) == CHOOSE t \in snapshot[5] : t.id = id

TriggerStored(id) == CHOOSE t \in physics_triggers : t.id = id

\* the n-th body intersects the m-th trigger, at the given position of the body
Inside(m, n, position) ==
    ShapeIntersects(triggers[m].shape, triggers[m].isometry.translation,
                    entities[n].shape, position)

\* C2: when a step has ended, a body that intersects a trigger and did not when the
\* step began is in the stored added_entities, a body that intersects the trigger is
\* in the stored entities_inside, and a body is in removed_entities exactly when it
\* was in entities_inside and no longer intersects the trigger.
C2_TriggerOccupancy ==
    pc = "done" =>
        \A m \in 1..Len(triggers), n \in 1..Len(entities) :
            LET id == entities[n].id
                now == Inside(m, n, entities[n].rb.position)
                before == Inside(m, n, BodyBefore(id).position)
                was_inside == id \in SetOf(TriggerBefore(triggers[m].trigger_id).entities_inside)
                stored == TriggerStored(triggers[m].trigger_id)
            IN  /\ (now /\ ~before /\ ~was_inside) => id \in SetOf(stored.added_entities)
                /\ now => id \in SetOf(stored.entities_inside)
                /\ id \in SetOf(stored.removed_entities) <=> (was_inside /\ ~now)

\* C3: when a step has ended, every raycast of the world, one without broad-phase
\* candidate too, has as stored hits the hits of this step, as added_hits those that
\* were not hits before and as removed_hits the earlier hits that are no more.
C3_RaycastRefreshed ==
    pc = "done" =>
        \A n \in 1..Len(raycasts) :
            LET stored == RayCastStored(raycasts[n].id)
                previous_hits == SetOf(RayCastBefore(raycasts[n].id).hits)
            IN  /\ SetOf(stored.hits) = StepHits(n)
                /\ SetOf(stored.added_hits) = StepHits(n) \ previous_hits
                /\ SetOf(stored.removed_hits) = previous_hits \ StepHits(n)

\* C4: a second run of a step on the snapshot, configuration and overrides of the
\* first leaves the tables as the first run left them.
C4_SameResult ==
    (pc = "done" /\ first_run.set) => tables = first_run.tables

\* the unwrap() calls of the load succeed for this world
LoadOk(world_id) ==
    /\ TriggerDataCollectOk(world_id, ColliderAll(world_id))
    /\ RigidBodyDataCollectOk(world_id, ColliderAll(world_id))

\* C5: a step whose world has a body or trigger with a missing collider or missing
\* properties never gets beyond loading, and when it has aborted the tables are as
\* they were when it began.
C5_AbortsWhileLoading ==
    /\ InStep => LoadOk(world.id)
    /\ pc = "aborted" => (~LoadOk(world.id) /\ tables = snapshot)

\* a step has aborted on a body whose collider is missing
C5_Witness ==
    /\ pc = "aborted"
    /\ \E rb \in physics_rigid_bodies :
           /\ rb.world_id = world.id
           /\ \A c \in physics_colliders : c.id # rb.collider_id

\* the pairs of two bodies, in the order of the sequence
BodyPairs(pairs) == SelectSeq(pairs, LAMBDA p : ~p[1].is_trigger /\ ~p[2].is_trigger)

\* C6: the pairs of bodies the broad phase finds are those it finds when the world
\* has no trigger, and the constraints of a substep are those of the pairs of
\* bodies alone: both ends of every constraint are bodies.
C6_TriggersLeaveBodiesAlone ==
    /\ ((pc = "narrow" /\ substep = 0) \/ (pc = "triggers" /\ world.sub_step = 0)) =>
           SetOf(BodyPairs(collision_detection.pairs)) =
               RunBroadPhasePairs(
                   QbvhRebuild(CollectCollidables(entities, << >>, PredictionDistance(world)),
                               world.qvbh_dilation_factor),
                   "both")
    /\ pc = "integrate" =>
           penetration_constraints =
               NarrowPhaseConstraints(world, BodyPairs(collision_detection.pairs), entities)
    /\ InStep =>
           /\ Len(penetration_constraints) <= Len(BodyPairs(collision_detection.pairs))
           /\ \A n \in 1..Len(penetration_constraints) :
                  {penetration_constraints[n].a, penetration_constraints[n].b}
                      \subseteq {entities[k].id : k \in 1..Len(entities)}

\* a substep has its constraints, and the broad phase had found a pair with a trigger
C6_Witness ==
    /\ pc = "integrate"
    /\ penetration_constraints # << >>
    /\ \E n \in 1..Len(collision_detection.pairs) : collision_detection.pairs[n][2].is_trigger
    /\ triggers # << >>

\* the k-th body, at the given position, is on the path of the n-th raycast
OnRayPath(n, k, position) ==
    AabbIntersects(CollisionAabb(entities[k].shape, position, PredictionDistance(world)),
                   RaySegment(raycasts[n]))

\* the bodies on the path of the n-th raycast when the step began or when it
\* ended, and those among its hits stored before, have the pose they began with
NoPoseChangeOnRayPath(n) ==
    \A k \in 1..Len(entities) :
        (\/ OnRayPath(n, k, BodyBefore(entities[k].id).position)
         \/ OnRayPath(n, k, entities[k].rb.position)
         \/ \E h \in SetOf(RayCastBefore(raycasts[n].id).hits) :
                h.rigid_body_id = entities[k].id) =>
            /\ entities[k].rb.position = BodyBefore(entities[k].id).position
            /\ entities[k].rb.rotation = BodyBefore(entities[k].id).rotation

\* C7: a step of a world that follows a step of the same world stores, for every
\* raycast on whose path no body changed its pose, empty added_hits and
\* removed_hits, and the hits it stores are, as a set, those stored before.
C7_SecondRunAddsNothing ==
    (/\ pc = "done"
     /\ Len(steps) >= 2
     /\ steps[Len(steps) - 1] = world.id) =>
        \A n \in 1..Len(raycasts) :
            NoPoseChangeOnRayPath(n) =>
                LET stored == RayCastStored(raycasts[n].id)
                IN  /\ stored.added_hits = << >>
                    /\ stored.removed_hits = << >>
                    /\ SetOf(stored.hits) = SetOf(RayCastBefore(raycasts[n].id).hits)

\* C8: the broad phase holds no pair of a collidable with itself, and the first of
\* every pair has the smaller collidable_index, in whatever order the tree reports.
C8_PairsNormalised ==
    \A n \in 1..Len(collision_detection.pairs) :
        /\ collision_detection.pairs[n][1] # collision_detection.pairs[n][2]
        /\ collision_detection.pairs[n][1].collidable_index
               < collision_detection.pairs[n][2].collidable_index

\* the broad phase has found two pairs or more
C8_Witness ==
    /\ pc \in {"narrow", "triggers"}
    /\ Len(collision_detection.pairs) >= 2

\* the rows of a table that belong to other worlds than the one being stepped
OtherWorlds(table) == {r \in table : r.world_id # world.id}

\* C9: a step loads rows of its own world only, and from its call to its end the
\* rows of every other world are as they were when it began, an override that
\* names a body of another world included.
C9_WorldsIsolated ==
    (InStep \/ pc \in {"done", "aborted"}) =>
        /\ \A n \in 1..Len(entities) : entities[n].rb.world_id = world.id
        /\ \A n \in 1..Len(triggers) : triggers[n].world_id = world.id
        /\ \A n \in 1..Len(raycasts) : raycasts[n].world_id = world.id
        /\ OtherWorlds(physics_colliders) = OtherWorlds(snapshot[2])
        /\ OtherWorlds(physics_rigid_body_properties) = OtherWorlds(snapshot[3])
        /\ OtherWorlds(physics_rigid_bodies) = OtherWorlds(snapshot[4])
        /\ OtherWorlds(physics_triggers) = OtherWorlds(snapshot[5])
        /\ OtherWorlds(physics_raycasts) = OtherWorlds(snapshot[6])

\* a step has ended that changed the bodies of its world, called with an override
\* that names a Kinematic body of another world
C9_Witness ==
    /\ pc = "done"
    /\ physics_rigid_bodies # snapshot[4]
    /\ \E rb \in physics_rigid_bodies :
           /\ rb.world_id # world.id
           /\ rb.body_type = "Kinematic"
           /\ Overridden(rb.id)
           /\ LastOverride(rb.id).position # rb.position

\* C10: from load to the stored rows, every Static body and every Kinematic body
\* without override has the position and rotation it had when the step began,
\* whatever the substeps and iterations and in penetrating contact too; and the
\* overrides change the pose of no body that is not Kinematic.
C10_FixedBodiesKeepPose ==
    /\ (InStep \/ pc = "done") =>
           \A n \in 1..Len(entities) :
               (\/ entities[n].rb.body_type = "Static"
                \/ (entities[n].rb.body_type = "Kinematic" /\ ~Overridden(entities[n].id))) =>
                   /\ entities[n].rb.position = BodyBefore(entities[n].id).position
                   /\ entities[n].rb.rotation = BodyBefore(entities[n].id).rotation
    /\ pc = "done" =>
           \A rb \in physics_rigid_bodies :
               (/\ rb.world_id = world.id
                /\ \/ rb.body_type = "Static"
                   \/ (rb.body_type = "Kinematic" /\ ~Overridden(rb.id))) =>
                   /\ rb.position = BodyBefore(rb.id).position
                   /\ rb.rotation = BodyBefore(rb.id).rotation
    /\ pc = "broad" =>
           \A n \in 1..Len(entities) :
               entities[n].rb.body_type # "Kinematic" =>
                   /\ entities[n].rb.position = BodyBefore(entities[n].id).position
                   /\ entities[n].rb.rotation = BodyBefore(entities[n].id).rotation

\* a step has ended in which a contact between a Static and a Dynamic body was
\* solved, called with an override that names the Dynamic body
C10_Witness ==
    /\ pc = "done"
    /\ \E rb \in physics_rigid_bodies :
           /\ rb.world_id = world.id
           /\ rb.body_type = "Static"
           /\ \E n \in SolvedContacts(rb.id) :
                  \E other \in physics_rigid_bodies :
                      /\ other.id \in {penetration_constraints[n].a, penetration_constraints[n].b}
                      /\ other.body_type = "Dynamic"
                      /\ Overridden(other.id)
                      /\ other.position # BodyBefore(other.id).position

\* C11: when a step of a world with one substep or more has ended, the stored row
\* of every Static and every Kinematic body of the world, overridden or not, has
\* linear and angular velocity zero, whatever velocities its row held when the
\* step began and whatever contacts it took part in.
C11_FixedBodiesAtRest ==
    (pc = "done" /\ world.sub_step >= 1) =>
        \A rb \in physics_rigid_bodies :
            (rb.world_id = world.id /\ rb.body_type \in {"Static", "Kinematic"}) =>
                /\ rb.linear_velocity = 0
                /\ rb.angular_velocity = 0

\* a step with a substep has ended in which a Static body whose row held
\* velocities took part in a solved contact with a Dynamic body
C11_Witness ==
    /\ pc = "done"
    /\ world.sub_step >= 1
    /\ \E rb \in physics_rigid_bodies :
           /\ rb.world_id = world.id
           /\ rb.body_type = "Static"
           /\ BodyBefore(rb.id).linear_velocity # 0
           /\ BodyBefore(rb.id).angular_velocity # 0
           /\ SolvedContacts(rb.id) # {}

\* C12: when a step has ended, the hits stored for every raycast of the world are
\* in the order of their distance from the origin of the ray: of two hits at
\* different distances the nearer one comes first.
C12_HitsByDistance ==
    pc = "done" =>
        \A n \in 1..Len(raycasts) :
            LET hits == RayCastStored(raycasts[n].id).hits
            IN  \A i, j \in 1..Len(hits) :
                    (i < j /\ hits[i].distance # hits[j].distance) =>
                        hits[i].distance < hits[j].distance

\* the pairs of the broad phase but for those of two triggers
BodyTriggerPairs ==
    SelectSeq(collision_detection.pairs, LAMBDA p : ~(p[1].is_trigger /\ p[2].is_trigger))

\* the ids that the pairs of a body and a trigger alone put into the trigger at
\* place n of triggers
InsideByBodyPairs(n) ==
    TriggerPairs(BodyTriggerPairs, entities,
                 [m \in 1..Len(triggers) |->
                      [triggers[m] EXCEPT !.new_entities_inside = {}]])[n].new_entities_inside

\* C13: a pair of two triggers is ignored by narrow_phase_triggers: a step does
\* not fail in narrow_phase_triggers when the pairs of a body and a trigger index
\* nothing out of bounds, whatever the number of bodies, and the occupancy found
\* for every trigger is that which the pairs of a body and a trigger alone give.
C13_TriggerPairsIgnored ==
    /\ (pc = "panicked" /\ NarrowPhaseConstraintsOk(collision_detection.pairs, entities)) =>
           ~NarrowPhaseTriggersOk(BodyTriggerPairs, entities, triggers)
    /\ pc = "raycast" =>
           \A n \in 1..Len(triggers) :
               triggers[n].current_entities_inside = InsideByBodyPairs(n)

\* the triggers phase of the step has run
TriggersDone == pc \in {"raycast", "update", "done"}

\* C14: once narrow_phase_triggers has run, the row stored for every trigger of
\* the world has added_entities = new - current, removed_entities = current - new
\* and entities_inside = new, where current is the entities_inside of its row when
\* the step began and new is the set of ids found intersecting it in this step; so
\* added and removed are disjoint, added lies within entities_inside, removed is
\* disjoint from entities_inside, and both are empty when the occupancy did not
\* change, whatever the row held before.
C14_TriggerDiff ==
    TriggersDone =>
        \A n \in 1..Len(triggers) :
            LET current == SetOf(TriggerBefore(triggers[n].trigger_id).entities_inside)
                new == triggers[n].new_entities_inside
                stored == TriggerStored(triggers[n].trigger_id)
                added == SetOf(stored.added_entities)
                removed == SetOf(stored.removed_entities)
                inside == SetOf(stored.entities_inside)
            IN  /\ added = new \ current
                /\ removed = current \ new
                /\ inside = new
                /\ Len(stored.added_entities) = Cardinality(added)
                /\ Len(stored.removed_entities) = Cardinality(removed)
                /\ Len(stored.entities_inside) = Cardinality(inside)
                /\ added \cap removed = {}
                /\ added \subseteq inside
                /\ removed \cap inside = {}
                /\ current = new => (stored.added_entities = << >> /\ stored.removed_entities = << >>)

\* a step has ended for a trigger whose row held an added body when the step
\* began and whose occupancy, not empty, is the same as before
C14_Witness ==
    /\ pc = "done"
    /\ \E n \in 1..Len(triggers) :
           LET before == TriggerBefore(triggers[n].trigger_id)
               stored == TriggerStored(triggers[n].trigger_id)
           IN  /\ before.added_entities # << >>
               /\ triggers[n].new_entities_inside # {}
               /\ SetOf(before.entities_inside) = triggers[n].new_entities_inside
               /\ stored.added_entities = << >>

\* a step has ended in which a body left a trigger
C14_WitnessLeft ==
    /\ pc = "done"
    /\ \E n \in 1..Len(triggers) :
           TriggerStored(triggers[n].trigger_id).removed_entities # << >>

\* the signed distance of the sphere of a row from the half-space at 0
DropDistance(rb) == rb.position - DropRadius

\* the sphere rests on the plane
DropAtRest ==
    \A rb \in physics_rigid_bodies :
        rb.body_type = "Dynamic" =>
            /\ Abs(DropDistance(rb)) <= world.precision
            /\ Abs(rb.linear_velocity) <= 2 * Abs(world.gravity) * Dt(world)

PhaseOrder ==
    /\ pc = "sync" => pc' = "broad"
    /\ pc = "broad" =>
           /\ substep' = 0
           /\ pc' = IF world.sub_step = 0 THEN "triggers" ELSE "narrow"
    /\ pc = "narrow" => pc' \in {"integrate", "panicked"}
    /\ pc = "integrate" =>
           /\ iteration' = 0
           /\ pc' = "solve"
    /\ (pc = "solve" /\ pc' # "nonfinite") =>
           /\ iteration' = iteration + 1
           /\ pc' = IF iteration' = world.position_iterations THEN "recompute" ELSE "solve"
    /\ pc = "recompute" => (pc' = "velocities" /\ iteration' = world.position_iterations)
    /\ pc = "velocities" =>
           /\ substep' = substep + 1
           /\ pc' = IF substep' = world.sub_step THEN "triggers" ELSE "narrow"
    /\ pc = "triggers" =>
           /\ substep' = world.sub_step
           /\ pc' \in {"raycast", "panicked"}
    /\ pc = "raycast" => pc' = "update"
    /\ pc = "update" => pc' = "done"
    /\ pc' = "sync" => (pc \in {"idle", "done", "aborted", "panicked", "rerun"})
    /\ pc' = "broad" => pc = "sync"
    /\ pc' = "narrow" => pc \in {"broad", "velocities"}
    /\ pc' = "integrate" => pc = "narrow"
    /\ pc' = "solve" => pc \in {"integrate", "solve"}
    /\ pc' = "recompute" => pc = "solve"
    /\ pc' = "velocities" => pc = "recompute"
    /\ pc' = "triggers" => pc \in {"broad", "velocities"}
    /\ pc' = "raycast" => pc = "triggers"
    /\ pc' = "update" => pc = "raycast"
    /\ (pc' = "done" /\ pc # "done") => pc = "update"
    /\ physics_rigid_bodies' # physics_rigid_bodies => pc \in {"update", "done"}
    /\ (pc \in {"sync", "broad"} /\ entities' # entities) => pc = "sync"

\* C16: within a step the overrides are applied first, the broad phase runs
\* once, before the first substep, then sub_step substeps run, each as narrow
\* phase, integration, position_iterations passes of the constraints, the
\* recomputing and the solving of the velocities, then the narrow phases of the
\* triggers and of the raycasts run once, and the bodies are written back last.
C16_PhaseOrder == [][PhaseOrder]_vars

\* a step of MaxSubStep substeps of MaxPositionIterations passes each, in which
\* a contact was solved, has ended
C16_Witness ==
    /\ pc = "done"
    /\ world.sub_step = MaxSubStep
    /\ world.position_iterations = MaxPositionIterations
    /\ substep = world.sub_step
    /\ iteration = world.position_iterations
    /\ penetration_constraints # << >>
    /\ physics_rigid_bodies # snapshot[4]

\* the tangential slide of the contact points of a constraint since the substep
\* began, for a normal across the axis
TangentialSlide(bodies) ==
    (bodies[1].rb.position - bodies[1].previous_position)
        - (bodies[2].rb.position - bodies[2].previous_position)

\* C17: in a pass of solve_friction on a contact with a tangential slide, the
\* positional correction of static friction is applied exactly when the slide is
\* less than mu_s |C|, with mu_s the mean of the two static coefficients and |C|
\* the depth of the penetration, and a correction applied to two Dynamic bodies
\* cancels the slide.
C17_StaticFriction ==
    [][pc = "friction" =>
          LET slide == Abs(TangentialSlide(entities))
              mu_s == Div(entities[1].friction_static_coefficient
                              + entities[2].friction_static_coefficient, 2)
              depth == Abs(penetration_constraints[1].penetration_depth)
          IN  slide > 0 =>
                  /\ (entities' # entities) <=> (slide < mu_s * depth)
                  /\ (slide < mu_s * depth /\ IsDynamic(entities[2])) =>
                         TangentialSlide(entities') = 0]_vars

\* the constraints (places in penetration_constraints) that name the body
ContactsOf(id) ==
    {n \in 1..Len(penetration_constraints) :
        id \in {penetration_constraints[n].a, penetration_constraints[n].b}}

\* C18: a Static or Kinematic body acts in a contact as a body of infinite
\* mass, whatever mass its properties record: a pass of the constraints moves a
\* Dynamic body whose only contact is one with a Static or Kinematic body by the
\* depth of the penetration of that contact.
C18_InfiniteMass ==
    [][(pc = "solve" /\ pc' # "nonfinite") =>
          \A n \in 1..Len(penetration_constraints) :
              LET c == penetration_constraints[n]
                  a == IndexOfId(entities, c.a)
                  b == IndexOfId(entities, c.b)
                  d == IF IsDynamic(entities[a]) THEN a ELSE b
                  fixed == IF IsDynamic(entities[a]) THEN b ELSE a
              IN  (/\ IsDynamic(entities[d])
                   /\ ~IsDynamic(entities[fixed])
                   /\ ContactsOf(entities[d].id) = {n}) =>
                      Abs(entities'[d].rb.position - entities[d].rb.position)
                          = Abs(c.penetration_depth)]_vars

\* C19: compute_lagrange_update divides by no zero: no sweep of the constraints
\* leaves a Lagrange multiplier, a position or a velocity that is infinite or
\* NaN, a contact of two bodies of inverse mass zero and inverse inertia zero
\* included.
C19_NoDivisionByZero == pc # "nonfinite"

MaxOffset == 2

Offsets == ((-MaxOffset)..MaxOffset) \ {0}

\* the constraints that the narrow phase makes of the two bodies moved by offset
TranslatedConstraints(body_a, body_b, offset) ==
    LET moved_a == SetPosition(body_a, body_a.rb.position + offset)
        moved_b == SetPosition(body_b, body_b.rb.position + offset)
    IN  {PenetrationConstraintNew(moved_a, moved_b, point, 0)
         : point \in {c \in TestCollision(moved_a, moved_b, world.precision) :
                          ~(c.distance >= 0)}}

\* C20: the lever arms of solve_friction and of solve_velocities are those of
\* solve_contact, the contact points relative to the centres of the bodies, and
\* they are the same for the contact of the two bodies moved by one offset.
C20_LeverArms ==
    pc = "integrate" =>
        \A n \in 1..Len(penetration_constraints) :
            LET c == penetration_constraints[n]
                body_a == entities[IndexOfId(entities, c.a)]
                body_b == entities[IndexOfId(entities, c.b)]
            IN  /\ FrictionLeverArms(c) = ContactLeverArms(c, body_a, body_b)
                /\ VelocityLeverArms(c) = ContactLeverArms(c, body_a, body_b)
                /\ \A offset \in Offsets :
                       \A moved \in TranslatedConstraints(body_a, body_b, offset) :
                           /\ FrictionLeverArms(moved) = FrictionLeverArms(c)
                           /\ VelocityLeverArms(moved) = VelocityLeverArms(c)

\* C21: a Dynamic body that only turned freely at angular velocity omega during
\* a substep has, after recompute_velocities, an angular velocity within a
\* tenth of omega.
C21_FreeSpinKept ==
    (pc = "spin_integrate" /\ substep = 1) =>
        LET omega == entities[1].pre_solve_angular_velocity
        IN  10 * Abs(entities[1].rb.angular_velocity - omega) <= Abs(omega)

\* the constraint joins two distinct bodies of a pair of the broad phase that
\* has no trigger, and its contact penetrates
ConstraintJoins(c, pairs, bodies) ==
    /\ c.a # c.b
    /\ c.penetration_depth < 0
    /\ \E i, j \in 1..Len(bodies) : bodies[i].id = c.a /\ bodies[j].id = c.b
    /\ \E n \in 1..Len(pairs) :
           /\ ~pairs[n][1].is_trigger
           /\ ~pairs[n][2].is_trigger
           /\ {pairs[n][1].id, pairs[n][2].id} = {c.a, c.b}

\* the constraint is rigid and none of its multipliers has accumulated
ConstraintFresh(c) ==
    /\ c.compliance = 0
    /\ c.normal_lagrange = 0
    /\ c.tangential_lagrange = 0
    /\ c.tangent_lagrange = 0

ConstraintLifetime ==
    /\ (pc = "narrow" /\ pc' = "integrate") =>
           \A n \in 1..Len(penetration_constraints') :
               /\ ConstraintJoins(penetration_constraints'[n], collision_detection.pairs,
                                  entities)
               /\ ConstraintFresh(penetration_constraints'[n])
    /\ (InStep /\ penetration_constraints' # penetration_constraints) =>
           pc \in {"narrow", "solve"}

Integrated ==
    \/ pc \in {"solve", "recompute", "velocities", "triggers", "raycast", "update"}
    \/ (pc \in {"narrow", "integrate"} /\ substep >= 1)

RelativeNormalVelocity(constraint, bodies) ==
    Dot(constraint.normal, bodies[1].rb.linear_velocity - bodies[2].rb.linear_velocity)

\* C24: solve_velocities leaves a contact whose relative normal speed is at or
\* below 2 |g| dt with relative normal velocity zero, whatever the restitution
\* of its bodies.
C24_RestingContact ==
    [][(pc = "restitution"
           /\ Abs(RelativeNormalVelocity(penetration_constraints[1], entities))
                  <= 2 * Length(world.gravity) * Dt(world))
          => RelativeNormalVelocity(penetration_constraints[1], entities') = 0]_vars

\* the body is dirty and the step has changed its row
Mutated(body) == body.is_dirty /\ body.rb # BodyBefore(body.id)

\* C25: the rows of bodies that the end of the step hands to the store are
\* those of the bodies that the step mutated, which are dirty; a body whose row
\* the step did not change is not handed to the store.
C25_OnlyDirtyWritten ==
    pc = "update" =>
        \A n \in 1..Len(UpdatedBodies(entities)) :
            Mutated(entities[IndexOfId(entities, UpdatedBodies(entities)[n].id)])

\* C27: the bodies are sorted by id, and every penetration constraint has a < b
\* with a the body of the smaller index; get_bodies_mut(a, b, bodies) passes its
\* assertion and its searches and returns the body a first and the body b
\* second, and the normal of a new constraint points from a to b.
C27_ConstraintOrder ==
    InStep =>
        /\ \A i, j \in 1..Len(entities) : i < j => entities[i].id < entities[j].id
        /\ \A n \in 1..Len(penetration_constraints) :
               LET c == penetration_constraints[n]
                   at == GetBodiesMut(c.a, c.b, entities)
               IN  /\ c.a < c.b
                   /\ GetBodiesMutOk(c.a, c.b, entities)
                   /\ entities[at[1]].id = c.a
                   /\ entities[at[2]].id = c.b
                   /\ at[1] < at[2]
                   /\ pc = "integrate" =>
                          c.normal * (entities[at[2]].rb.position
                                          - entities[at[1]].rb.position) >= 0

\* a sweep of the solver or of solve_velocities has a constraint whose first
\* body is not the first of the array
C27_Witness ==
    /\ pc \in {"solve", "velocities"}
    /\ \E n \in 1..Len(penetration_constraints) :
           penetration_constraints[n].a # entities[1].id

\* C28: the rotation of the isometry of a trigger whose row holds the identity
\* rotation is the identity, and the rotation that the step writes back,
\* converted from that isometry, is the rotation of the row the step loaded.
C28_RotationRoundTrip ==
    /\ InStep =>
           \A n \in 1..Len(triggers) :
               TriggerBefore(triggers[n].trigger_id).rotation = QuatIDENTITY =>
                   triggers[n].isometry.rotation = [w |-> 1, i |-> 0, j |-> 0, k |-> 0]
    /\ pc \in {"raycast", "update", "done"} =>
           \A t \in TriggerAll(world.id) : t.rotation = TriggerBefore(t.id).rotation

\* the lobby_player rows of an identity
Memberships(identity) == {lp \in lobby_player : lp.player_identity = identity}

AtMostOneLobby == \A identity \in Identities : Cardinality(Memberships(identity)) <= 1

\* a caller who has a lobby_player row gets Err("Already in a lobby") from
\* create_lobby and from join_lobby, and the call changes no table
AlreadyInALobby ==
    \A identity \in Identities :
        InLobby(identity) =>
            /\ CreateLobbyResult(identity) = "Already in a lobby"
            /\ \A game_mode \in GameModes, max_players \in MaxPlayersInputs :
                CreateLobby(identity, game_mode, max_players) => UNCHANGED gyrii
            /\ \A lobby_id \in 1..MaxLobbies :
                /\ JoinLobbyResult(identity, lobby_id) = "Already in a lobby"
                /\ JoinLobby(identity, lobby_id) => UNCHANGED gyrii

\* C26: After any sequence of create_lobby, join_lobby, leave_lobby and
\* client_disconnected (and of the other lobby reducers), each identity has at most
\* one lobby_player row; create_lobby and join_lobby return
\* Err("Already in a lobby") and change nothing when the caller already has a row.
C26_OneLobbyPerPlayer == [](AtMostOneLobby) /\ [][AlreadyInALobby]_vars

\* a member of one lobby while another lobby is waiting and has room for a player
C26_Witness ==
    \E identity \in Identities, l \in lobby :
        /\ InLobby(identity)
        /\ \A lp \in Memberships(identity) : lp.lobby_id # l.id
        /\ l.game_state = "Waiting"
        /\ Cardinality(Members(l.id)) < l.max_players

\* C29: After any sequence of create_lobby, join_lobby, leave_lobby, set_ready,
\* start_game and client_disconnected, the host_id of every lobby is the identity
\* of a player who has a lobby_player row for that lobby.
C29_HostIsMember ==
    \A l \in lobby : \E lp \in Members(l.id) : lp.player_identity = l.host_id

\* the pending physics_tick_timer rows of a world
PendingTimers(world_id) == {timer \in physics_tick_timer : timer.world_id = world_id}

\* C30: For each physics world at most one physics_tick_timer row is pending at
\* any time, whatever sequence of lobby reducers is called.
C30_OneTimerPerWorld ==
    \A world_id \in 1..MaxLobbies : Cardinality(PendingTimers(world_id)) <= 1

====
